---- MODULE Spec2Model ----
(***************************************************************************)
(* Authentication / session core of the MENA-BD backend.                   *)
(*                                                                         *)
(* The persistence store (users, refresh-token ledger) is shared state.    *)
(* Every HTTP request is a process; it interleaves with other requests     *)
(* only at its awaits.  One action of the model is: the awaited call takes *)
(* effect, the handler resumes and runs its synchronous code up to the     *)
(* next await (or to the response).  The arrival of a request and its      *)
(* synchronous prologue are folded into its first awaited call.            *)
(*                                                                         *)
(* Time is counted in tenths of a second.  Serial ids are never reused.    *)
(***************************************************************************)
EXTENDS Integers, FiniteSets, Sequences, TLC

\* ---------------------------------------------------------------- bounds
MaxReq == 4          \* requests issued in one behaviour
MaxInFlight == 2     \* requests under way at the same time
MaxTicks == 1        \* clock advances in one behaviour
NumUsers == 2        \* seeded users that take part
MaxHits == 11        \* requests issued in one behaviour of the limiter alone
MaxElapsedMinutes == 60  \* minutes that pass in one behaviour of a burst

\* ------------------------------------------------------ program constants
MsPerUnit == 100                \* the clock counts tenths of a second
MsPerSecond == 1000
MsPerMinute == 60000            \* 60 * 1000
Minute == MsPerMinute \div MsPerUnit
MinutesPerDay == 1440
RefreshRecordDays == 7          \* expiresAt.setDate(getDate() + 7)
DefaultRefreshExpiryDays == 7   \* REFRESH_TOKEN_EXPIRY default "7d"
LongRefreshExpiryDays == 30     \* a REFRESH_TOKEN_EXPIRY set through the environment
AccessExpiryMinutes == 15       \* ACCESS_TOKEN_EXPIRY default "15m"
LoginWindowMinutes == 15        \* loginRateLimit windowMs
LoginMax == 5                   \* loginRateLimit max
RefreshWindowMinutes == 1       \* refreshRateLimit windowMs
RefreshMax == 10                \* refreshRateLimit max
ForgotWindowMinutes == 60       \* forgotPasswordRateLimit windowMs
ForgotMax == 3                  \* forgotPasswordRateLimit max
ResetWindowMinutes == 15        \* resetPasswordRateLimit windowMs
ResetMax == 5                   \* resetPasswordRateLimit max
RegisterWindowMinutes == 60     \* registerRateLimit windowMs
RegisterMax == 3                \* registerRateLimit max
MinutesPerHour == 60
SetupTokenHours == 24           \* setHours(getHours() + 24)
ResetTokenHours == 1            \* setHours(getHours() + 1)
MinLength == 8                  \* PASSWORD_RULES.MIN_LENGTH

Users == 1 .. NumUsers
Reqs == 1 .. MaxInFlight
NoUser == 0
UnknownEmail == 0               \* an address no user has
NewEmail == NumUsers + 1        \* an address no seeded user has, free to register
Emails == Users \cup {UnknownEmail, NewEmail}
\* Addresses are submitted as they are stored (lower case, trimmed) or in another
\* spelling of the same address (upper case, padded).
Shouted(e) == e + NewEmail + 1
RawEmails == Emails \cup {Shouted(e) : e \in Emails}
\* sanitizeEmail: email.toLowerCase().trim()
sanitizeEmail(email) == IF email > NewEmail THEN email - (NewEmail + 1) ELSE email

\* The seed creates its users verified except the 3rd and the 5th, all with
\* the same password.
SeedVerified(u) == u \notin {3, 5}
SeedRole(u) == IF u = 1 THEN "ADMIN" ELSE "USER"
SeedPassword == "password123"
Passwords == {SeedPassword, "Passw0rd"}

\* what validatePassword looks at in each password
PasswordShape(p) ==
    IF p = "Passw0rd"
      THEN [length |-> 8, upper |-> TRUE, lower |-> TRUE, digit |-> TRUE]
      ELSE [length |-> 11, upper |-> FALSE, lower |-> TRUE, digit |-> TRUE]

\* validatePassword(password).valid
validatePassword(p) ==
    /\ PasswordShape(p).length >= MinLength
    /\ PasswordShape(p).upper
    /\ PasswordShape(p).lower
    /\ PasswordShape(p).digit

NoSecret == 0                   \* a one-time token field that is null or absent
NoTime == 0                     \* an expiry field that is null

\* ------------------------------------------------------------ token codec
\* A signed token is its claims plus the secret that signed it (and the issuer and
\* audience it was signed for).
NoToken == [sig |-> "none", userId |-> 0, tokenId |-> 0, exp |-> 0]
Temp == [sig |-> "temp", userId |-> 0, tokenId |-> 0, exp |-> 0]
Forged == [sig |-> "bad", userId |-> 1, tokenId |-> 1, exp |-> 0]
\* access tokens for user 1 that carry an expiry far ahead: one signed with another
\* secret, one signed with the access secret for another audience
ForgedAccess ==
    [sig |-> "bad", userId |-> 1, tokenId |-> 0,
     exp |-> LongRefreshExpiryDays * MinutesPerDay * Minute]
Foreign ==
    [sig |-> "access-foreign", userId |-> 1, tokenId |-> 0,
     exp |-> LongRefreshExpiryDays * MinutesPerDay * Minute]

VARIABLES
    now,            \* Date.now(), in units of MsPerUnit
    ticks,          \* clock advances so far
    refreshExpiry,  \* REFRESH_TOKEN_EXPIRY of this deployment, in clock units
    users,          \* User table: id -> row
    ledger,         \* RefreshToken table: set of rows
    nextId,         \* RefreshToken id sequence
    rateLimitStore, \* the limiters' shared in-memory store: key -> {count, resetTime}
    admitted,       \* history: key -> when its window opened, admissions by limiter
    budget,         \* the number of requests a behaviour follows
    followed,       \* the limiters whose admissions a behaviour keeps the times of
    req,            \* the requests: slot -> locals and position
    started,        \* requests that have arrived so far
    resp,           \* the response sent last
    lineage,        \* history: record id -> id of the login record it descends from
    credential,     \* history: record id -> password hash its login verified
    handed,         \* history: refresh-token strings handed out by 200 responses
    handedAccess,   \* history: access tokens handed out by 200 responses
    succ,           \* history: <<presented, new>> token pairs of the successful refreshes
    answered,       \* history: {tok, status, code} of the refresh calls answered so far
    raced,          \* history: tokens two overlapping refreshes both found live
    closed,         \* history: tokens handed out before a logout-all of their user returned
    nextSecret,     \* the next draw of crypto.randomBytes: one-time tokens never repeat
    nextSalt,       \* the next salt the password hash draws
    mailed,         \* one-time tokens the mail service has delivered
    consumed        \* history: one-time tokens a password update has cleared

vars == <<now, ticks, refreshExpiry, users, ledger, nextId, rateLimitStore, admitted,
          budget, followed, req, started,
          resp, lineage, credential, handed, handedAccess, succ, answered, raced, closed,
          nextSecret, nextSalt, mailed, consumed>>

store == <<users, ledger, nextId, lineage, credential>>
history == <<handed, handedAccess, succ, raced>>
clock == <<now, ticks, refreshExpiry, budget, followed>>
limiter == <<rateLimitStore, admitted>>
onetime == <<nextSecret, nextSalt, mailed, consumed>>

\* jwt.sign(payload, REFRESH_TOKEN_SECRET, {expiresIn: REFRESH_TOKEN_EXPIRY})
generateRefreshToken(userId, tokenId) ==
    [sig |-> "refresh", userId |-> userId, tokenId |-> tokenId,
     exp |-> now + refreshExpiry]

\* jwt.sign(payload, ACCESS_TOKEN_SECRET, {expiresIn: ACCESS_TOKEN_EXPIRY})
generateAccessToken(userId) ==
    [sig |-> "access", userId |-> userId, tokenId |-> 0,
     exp |-> now + AccessExpiryMinutes * Minute]

\* faulty variant: the token's claims are taken whichever secret signed them
verifyAccessTokenAnySecret(token) ==
    /\ token.sig \in {"access", "refresh"}
    /\ now < token.exp
    /\ token.userId # 0

\* jwt.verify(token, ACCESS_TOKEN_SECRET) and the required-field check
verifyAccessToken(token) ==
    /\ token.sig = "access"
    /\ now < token.exp
    /\ token.userId # 0

\* jwt.decode only: expiration < new Date(), expired when there is no exp
isTokenExpired(token) == token.exp = 0 \/ token.exp < now

\* jwt.verify(token, REFRESH_TOKEN_SECRET) and the required-field check
verifyRefreshToken(token) ==
    /\ token.sig = "refresh"
    /\ now < token.exp
    /\ token.userId # 0 /\ token.tokenId # 0

\* password hashing: the stored hash verifies exactly its plaintext
NoHash == [plain |-> "", salt |-> 0]      \* password = null
hashPassword(p, salt) == [plain |-> p, salt |-> salt]
comparePassword(p, h) == h # NoHash /\ h.plain = p

\* ------------------------------------------------------------ persistence
Row(id) == CHOOSE t \in ledger : t.id = id
HasRow(id) == \E t \in ledger : t.id = id

\* RefreshToken_token_key: no two rows hold the same token string
UniqueTokenViolated(token) == \E t \in ledger : t.token = token

\* faulty variant: an updateMany whose where clause has lost the userId
RevokeAllRows(userId) ==
    { IF ~t.revoked
        THEN [t EXCEPT !.revoked = TRUE, !.revokedAt = now]
        ELSE t : t \in ledger }

\* prisma.refreshToken.updateMany({where: {userId, revoked: false},
\*                                 data: {revoked: true, revokedAt: new Date()}})
RevokeAllForUser(userId) ==
    { IF t.userId = userId /\ ~t.revoked
        THEN [t EXCEPT !.revoked = TRUE, !.revokedAt = now]
        ELSE t : t \in ledger }

\* ------------------------------------------------------------ rate limiter
\* All requests come from one address.  The limiters without a keyGenerator
\* (refresh among them) count under the bare address
\* (so do register and reset-password: one counter serves the three); login counts
\* under login:<ip>:<email> and forgot-password under forgot-password:<ip>:<email>.
IpKey == <<"ip", 0>>
LoginKey(email) == <<"login", email>>
ForgotKey(email) == <<"forgot-password", email>>
LimiterKeys ==
    {IpKey} \cup {LoginKey(e) : e \in RawEmails} \cup {ForgotKey(e) : e \in RawEmails}
NoRecord == [count |-> 0, resetTime |-> 0]

\* record && !(record.resetTime < now) && record.count >= max: answered 429
RateLimited(key, max) ==
    /\ rateLimitStore[key] # NoRecord
    /\ ~(rateLimitStore[key].resetTime < now)
    /\ rateLimitStore[key].count >= max

\* the limiters and their options
Limiters == {"login", "refresh", "register", "forgot-password", "reset-password"}
LimiterMax(name) ==
    CASE name = "login" -> LoginMax
      [] name = "refresh" -> RefreshMax
      [] name = "register" -> RegisterMax
      [] name = "forgot-password" -> ForgotMax
      [] name = "reset-password" -> ResetMax
LimiterWindow(name) ==
    CASE name = "login" -> LoginWindowMinutes * Minute
      [] name = "refresh" -> RefreshWindowMinutes * Minute
      [] name = "register" -> RegisterWindowMinutes * Minute
      [] name = "forgot-password" -> ForgotWindowMinutes * Minute
      [] name = "reset-password" -> ResetWindowMinutes * Minute

\* faulty variant: the remaining time is rounded down
retryAfterFloor(key) ==
    ((rateLimitStore[key].resetTime - now) * MsPerUnit) \div MsPerSecond

\* Math.ceil((record.resetTime - now) / 1000)
retryAfter(key) ==
    ((rateLimitStore[key].resetTime - now) * MsPerUnit + MsPerSecond - 1)
        \div MsPerSecond

\* history: the times in `times` that are no earlier than `since`
Recent(times, since) ==
    LET Keep(t) == t >= since
    IN SelectSeq(times, Keep)

\* history: for each limiter followed, the times of its admissions under the key
\* within its windowMs before now, with one more, now, by `name`
Logged(name, key) ==
    [l \in Limiters |->
        LET recent == Recent(admitted[key].log[l], now - LimiterWindow(l))
        IN IF l = name /\ l \in followed THEN Append(recent, now) ELSE recent]

\* history: the admissions since the key's window opened, with one more by `name`
NoTally == [since |-> 0, by |-> [l \in Limiters |-> 0], log |-> [l \in Limiters |-> <<>>]]
Tally(name, key) ==
    IF rateLimitStore[key] = NoRecord \/ rateLimitStore[key].resetTime < now
      THEN [admitted EXCEPT ![key] =
                [since |-> now, by |-> [l \in Limiters |-> IF l = name THEN 1 ELSE 0],
                 log |-> Logged(name, key)]]
      ELSE [admitted EXCEPT ![key].by[name] = @ + 1, ![key].log = Logged(name, key)]

\* the store after an admitted request: a new window, or one more in the open window
Counted(key, windowMs) ==
    IF rateLimitStore[key] = NoRecord \/ rateLimitStore[key].resetTime < now
      THEN [rateLimitStore EXCEPT ![key] =
                [count |-> 1, resetTime |-> now + windowMs]]
      ELSE [rateLimitStore EXCEPT ![key].count = @ + 1]

\* the limiter `name` calls next()
Admit(name, key) ==
    /\ rateLimitStore' = Counted(key, LimiterWindow(name))
    /\ admitted' = Tally(name, key)

\* ---------------------------------------------------------------- requests
\* A slot holds a request from its arrival to its response.  (prior is history:
\* the statuses earlier refresh calls presenting the same token were answered with.)
IdleReq ==
    [kind |-> "none", pc |-> "idle", email |-> UnknownEmail, password |-> "",
     tok |-> NoToken, user |-> NoUser, hash |-> NoHash, expiresAt |-> 0, newId |-> 0,
     newTok |-> NoToken, access |-> NoToken, bearer |-> NoToken, role |-> "",
     secret |-> NoSecret, newSecret |-> NoSecret, prior |-> {}]

NoResp ==
    [kind |-> "none", at |-> "idle", email |-> UnknownEmail, tok |-> NoToken,
     secret |-> NoSecret, password |-> "", user |-> NoUser, status |-> 0, code |-> "",
     error |-> "", message |-> "", retryAfter |-> 0, work |-> {}, out |-> NoToken,
     cleared |-> FALSE, prior |-> {}]

InFlight(r) == req[r].pc # "idle"

\* A request arrives in the lowest free slot, while the budget of requests lasts.
CanStart(r) ==
    /\ started < budget
    /\ ~InFlight(r)
    /\ \A q \in Reqs : q < r => InFlight(q)

\* faulty variant: the missing user is told apart from the wrong password
LoginErrorRevealing(at, status, code) ==
    IF status = 429 THEN "Too many login attempts. Please try again later."
    ELSE IF at = "arrive" /\ code = "INVALID_CREDENTIALS" THEN "User not found"
    ELSE IF code = "INVALID_CREDENTIALS" THEN "Invalid email or password"
    ELSE code

\* the `error` property of the JSON body login answers with from position `at`
\* (the limiter's message on a 429; the 200 body has none)
LoginError(at, status, code) ==
    IF status = 429 THEN "Too many login attempts. Please try again later."
    ELSE IF at = "arrive" /\ code = "INVALID_CREDENTIALS"
      THEN "Invalid email or password"
    ELSE IF code = "ACCOUNT_NOT_VERIFIED"
      THEN "Account not verified. Please wait for admin verification."
    ELSE IF code = "PASSWORD_NOT_SET"
      THEN "Password not set. Please check your email for password setup instructions."
    ELSE IF at = "compare" /\ code = "INVALID_CREDENTIALS"
      THEN "Invalid email or password"
    ELSE IF code = "LOGIN_ERROR" THEN "Failed to login"
    ELSE ""

\* the time-consuming calls login has awaited when it answers from position `at`:
\* the bcrypt comparison and the 100 ms setTimeout of the failure branches
LoginWork(at, status, code) ==
    IF status = 429 THEN {}
    ELSE IF at = "arrive" THEN {"delay"}
    ELSE IF at = "compare" THEN {"comparePassword", "delay"}
    ELSE {"comparePassword"}

\* faulty variant: the answer after the mail was sent differs from the others
ForgotMessageRevealing(at, status) ==
    IF status # 200 THEN ""
    ELSE IF at = "send" THEN "A password reset link has been sent."
    ELSE "If an account exists with this email, a password reset link has been sent."

\* the `message` property of the JSON body forgot-password answers with from
\* position `at`: on arrival (no user, not verified, no password), after the mail
\* was sent, and from the catch after the mail failed
ForgotMessage(at, status) ==
    IF status # 200 THEN ""
    ELSE IF at = "arrive"
      THEN "If an account exists with this email, a password reset link has been sent."
    ELSE IF at = "send"
      THEN "If an account exists with this email, a password reset link has been sent."
    ELSE "If an account exists with this email, a password reset link has been sent."

\* res.clearCookie("accessToken") and res.clearCookie("refreshToken") ahead of the
\* 200 of logout and logout-all
ClearsCookies(kind, status) == kind \in {"logout", "logoutAll"} /\ status = 200

\* the response to the request `rec`, sent from position `at` (error and work are
\* modelled for login only, message for forgot-password only)
Response(rec, at, status, code, out) ==
    [kind |-> rec.kind, at |-> at, email |-> rec.email, tok |-> rec.tok,
     secret |-> rec.secret, password |-> rec.password, user |-> rec.user,
     status |-> status, code |-> code,
     error |-> IF rec.kind = "login" THEN LoginError(at, status, code) ELSE "",
     message |-> IF rec.kind = "forgot" THEN ForgotMessage(at, status) ELSE "",
     retryAfter |-> 0,
     work |-> IF rec.kind = "login" THEN LoginWork(at, status, code) ELSE {},
     out |-> out, cleared |-> ClearsCookies(rec.kind, status), prior |-> rec.prior]

\* the answers so far, with the one to the request `rec`
Answered(rec, status, code) ==
    IF rec.kind = "refresh" /\ rec.tok # NoToken
      THEN answered \cup {[tok |-> rec.tok, status |-> status, code |-> code]}
      ELSE answered

\* the tokens closed so far, with those the answer to the request `rec` closes
Closed(rec, status) ==
    IF rec.kind = "logoutAll" /\ status = 200
      THEN closed \cup {t \in handed : t.userId = rec.user}
      ELSE closed

\* res.status(status).json({code}) at an await of slot r: the request ends
Finish(r, status, code) ==
    /\ req' = [req EXCEPT ![r] = IdleReq]
    /\ resp' = Response(req[r], req[r].pc, status, code, NoToken)
    /\ answered' = Answered(req[r], status, code)
    /\ closed' = Closed(req[r], status)

\* the same before the first await: the arriving request `rec` ends at once
Refuse(rec, status, code) ==
    /\ UNCHANGED req
    /\ resp' = Response(rec, "arrive", status, code, NoToken)
    /\ answered' = Answered(rec, status, code)
    /\ closed' = Closed(rec, status)

\* the limiter's res.status(429).json({error, retryAfter}): the arriving request
\* `rec` ends before its handler runs
TooManyRequests(rec, key) ==
    /\ UNCHANGED req
    /\ resp' = [Response(rec, "arrive", 429, "", NoToken) EXCEPT
                    !.retryAfter = retryAfter(key)]
    /\ answered' = Answered(rec, 429, "")
    /\ UNCHANGED closed

\* the handler of slot r awaits its next call with locals `rec`
Await(r, rec) ==
    /\ req' = [req EXCEPT ![r] = rec]
    /\ UNCHANGED <<resp, answered, closed>>

\* res.cookie("refreshToken", newTok) and res.json({accessToken}): 200
FinishWithTokens(r) ==
    /\ req' = [req EXCEPT ![r] = IdleReq]
    /\ resp' = Response(req[r], req[r].pc, 200, "OK", req[r].newTok)
    /\ answered' = Answered(req[r], 200, "OK")
    /\ UNCHANGED closed
    /\ handed' = handed \cup {req[r].newTok}
    /\ handedAccess' = handedAccess \cup {req[r].access}

\* faulty variant: the cookie is taken in preference to the header
extractTokenCookieFirst(header, cookie) ==
    IF cookie # NoToken THEN cookie ELSE header

\* extractToken: the Bearer token of the Authorization header, else the accessToken
\* cookie, else null
extractToken(header, cookie) ==
    IF header # NoToken THEN header ELSE cookie

\* the authentication guard up to its user lookup: "" when it calls next()
authenticate(token) ==
    IF token = NoToken THEN "NO_TOKEN"
    ELSE IF isTokenExpired(token) THEN "TOKEN_EXPIRED"
    ELSE IF ~verifyAccessToken(token) THEN "INVALID_TOKEN"
    ELSE IF token.userId \notin DOMAIN users THEN "USER_NOT_FOUND"
    ELSE ""

\* ------------------------------------------------------------ POST /register
\* the addresses submitted for registration (UnknownEmail is never registered)
RegisterEmails == {NewEmail, Shouted(NewEmail)}

\* the row prisma.user.create inserts: no password, not verified, role by default
RegisteredUser ==
    [isVerified |-> FALSE, role |-> "USER", password |-> NoHash,
     passwordSetupToken |-> NoSecret, passwordSetupTokenExpiresAt |-> NoTime,
     passwordResetToken |-> NoSecret, passwordResetTokenExpiresAt |-> NoTime]

\* arrival: registerRateLimit, the field checks (the e-mail is well-formed and the
\* name long enough) and prisma.user.findUnique({where: {email: sanitizedEmail}})
RegisterFind(r, email) ==
    /\ CanStart(r)
    /\ started' = started + 1
    /\ LET base == [IdleReq EXCEPT !.kind = "register", !.email = email]
       IN IF RateLimited(IpKey, RegisterMax)
            THEN TooManyRequests(base, IpKey) /\ UNCHANGED limiter
          ELSE /\ Admit("register", IpKey)
               /\ IF sanitizeEmail(email) \in DOMAIN users
                    THEN Refuse([base EXCEPT !.user = sanitizeEmail(email)],
                                400, "EMAIL_EXISTS")
                    ELSE Await(r, [base EXCEPT !.pc = "create",
                                               !.user = sanitizeEmail(email)])
    /\ UNCHANGED <<clock, onetime, store, history>>

\* faulty variant: the new account is created verified
RegisterCreateVerified(r) ==
    /\ req[r].kind = "register" /\ req[r].pc = "create"
    /\ IF req[r].user \in DOMAIN users
         THEN Finish(r, 500, "REGISTRATION_ERROR") /\ UNCHANGED users
         ELSE /\ users' = users @@ (req[r].user :> [RegisteredUser EXCEPT !.isVerified = TRUE])
              /\ Finish(r, 201, "OK")
    /\ UNCHANGED <<clock, onetime, ledger, nextId, lineage, credential, history,
                   limiter, started>>

\* prisma.user.create({data: {email, name, password: null, isVerified: false}}) and
\* 201; the insert fails on the unique e-mail index (User_email_key): 500
RegisterCreate(r) ==
    /\ req[r].kind = "register" /\ req[r].pc = "create"
    /\ IF req[r].user \in DOMAIN users
         THEN Finish(r, 500, "REGISTRATION_ERROR") /\ UNCHANGED users
         ELSE /\ users' = users @@ (req[r].user :> RegisteredUser)
              /\ Finish(r, 201, "OK")
    /\ UNCHANGED <<clock, onetime, ledger, nextId, lineage, credential, history,
                   limiter, started>>

\* --------------------------------------------------------------- POST /login
\* faulty variant: the password hash is looked at before the verification flag
LoginFindUserHashFirst(r, email, password) ==
    /\ CanStart(r)
    /\ started' = started + 1
    /\ LET base == [IdleReq EXCEPT !.kind = "login", !.email = email,
                                   !.password = password]
           sanitizedEmail == sanitizeEmail(email)
       IN IF RateLimited(LoginKey(email), LoginMax)
            THEN TooManyRequests(base, LoginKey(email)) /\ UNCHANGED limiter
          ELSE /\ Admit("login", LoginKey(email))
               /\ IF sanitizedEmail \notin DOMAIN users
                    THEN Refuse(base, 401, "INVALID_CREDENTIALS")
                  ELSE IF users[sanitizedEmail].password = NoHash
                    THEN Refuse(base, 403, "PASSWORD_NOT_SET")
                  ELSE IF ~users[sanitizedEmail].isVerified
                    THEN Refuse(base, 403, "ACCOUNT_NOT_VERIFIED")
                  ELSE Await(r, [base EXCEPT !.pc = "compare", !.user = sanitizedEmail,
                                    !.hash = users[sanitizedEmail].password])
    /\ UNCHANGED <<clock, onetime, store, history>>

\* arrival: loginRateLimit, prisma.user.findUnique({where: {email}}) and the
\* checks on the row
LoginFindUser(r, email, password) ==
    /\ CanStart(r)
    /\ started' = started + 1
    /\ LET base == [IdleReq EXCEPT !.kind = "login", !.email = email,
                                   !.password = password]
           sanitizedEmail == sanitizeEmail(email)
       IN IF RateLimited(LoginKey(email), LoginMax)
            THEN TooManyRequests(base, LoginKey(email)) /\ UNCHANGED limiter
          ELSE /\ Admit("login", LoginKey(email))
               /\ IF sanitizedEmail \notin DOMAIN users
                    THEN Refuse(base, 401, "INVALID_CREDENTIALS")
                  ELSE IF ~users[sanitizedEmail].isVerified
                    THEN Refuse(base, 403, "ACCOUNT_NOT_VERIFIED")
                  ELSE IF users[sanitizedEmail].password = NoHash
                    THEN Refuse(base, 403, "PASSWORD_NOT_SET")
                  ELSE Await(r, [base EXCEPT !.pc = "compare", !.user = sanitizedEmail,
                                    !.hash = users[sanitizedEmail].password])
    /\ UNCHANGED <<clock, onetime, store, history>>

\* faulty variant: a wrong password revokes the sessions of the account
LoginCompareRevoking(r) ==
    /\ req[r].kind = "login" /\ req[r].pc = "compare"
    /\ IF ~comparePassword(req[r].password, req[r].hash)
         THEN /\ Finish(r, 401, "INVALID_CREDENTIALS")
              /\ ledger' = RevokeAllForUser(req[r].user)
         ELSE /\ Await(r, [req[r] EXCEPT !.pc = "create",
                        !.access = generateAccessToken(req[r].user),
                        !.expiresAt = now + RefreshRecordDays * MinutesPerDay * Minute])
              /\ UNCHANGED ledger
    /\ UNCHANGED <<clock, onetime, users, nextId, lineage, credential, history, limiter,
                   started>>

\* comparePassword resumes; on success the access token is signed, expiresAt is
\* computed and the create is issued
LoginCompare(r) ==
    /\ req[r].kind = "login" /\ req[r].pc = "compare"
    /\ IF ~comparePassword(req[r].password, req[r].hash)
         THEN Finish(r, 401, "INVALID_CREDENTIALS")
         ELSE Await(r, [req[r] EXCEPT !.pc = "create",
                        !.access = generateAccessToken(req[r].user),
                        !.expiresAt = now + RefreshRecordDays * MinutesPerDay * Minute])
    /\ UNCHANGED <<clock, onetime, store, history, limiter, started>>

\* prisma.refreshToken.create({data: {token: "temp", userId, expiresAt}}), then
\* generateRefreshToken with the new id; the insert fails on the unique token index
LoginCreate(r) ==
    /\ req[r].kind = "login" /\ req[r].pc = "create"
    /\ nextId' = nextId + 1
    /\ IF UniqueTokenViolated(Temp)
         THEN /\ Finish(r, 500, "LOGIN_ERROR")
              /\ UNCHANGED <<ledger, lineage, credential>>
         ELSE /\ ledger' = ledger \cup
                    {[id |-> nextId, token |-> Temp, userId |-> req[r].user,
                      expiresAt |-> req[r].expiresAt, revoked |-> FALSE,
                      revokedAt |-> 0]}
              /\ lineage' = lineage @@ (nextId :> nextId)
              /\ credential' = credential @@ (nextId :> req[r].hash)
              /\ Await(r, [req[r] EXCEPT !.pc = "finalize", !.newId = nextId,
                        !.newTok = generateRefreshToken(req[r].user, nextId)])
    /\ UNCHANGED <<clock, onetime, users, history, limiter, started>>

\* faulty variant: the new token is handed out and the record keeps the placeholder
LoginFinalizeUnsigned(r) ==
    /\ req[r].kind = "login" /\ req[r].pc = "finalize"
    /\ FinishWithTokens(r)
    /\ UNCHANGED <<clock, onetime, store, succ, raced, limiter, started>>

\* faulty variant: a login ends the other sessions of its user
LoginFinalizeEvicting(r) ==
    /\ req[r].kind = "login" /\ req[r].pc = "finalize"
    /\ IF HasRow(req[r].newId)
         THEN /\ ledger' = {t \in ledger : t.userId # req[r].user} \cup
                    {[Row(req[r].newId) EXCEPT !.token = req[r].newTok]}
              /\ FinishWithTokens(r)
         ELSE /\ Finish(r, 500, "LOGIN_ERROR")
              /\ UNCHANGED <<ledger, handed, handedAccess>>
    /\ UNCHANGED <<clock, onetime, users, nextId, lineage, credential, succ, raced, limiter, started>>

\* prisma.refreshToken.update({where: {id}, data: {token}}), cookie and 200
LoginFinalize(r) ==
    /\ req[r].kind = "login" /\ req[r].pc = "finalize"
    /\ IF HasRow(req[r].newId)
         THEN /\ ledger' = (ledger \ {Row(req[r].newId)}) \cup
                    {[Row(req[r].newId) EXCEPT !.token = req[r].newTok]}
              /\ FinishWithTokens(r)
         ELSE /\ Finish(r, 500, "LOGIN_ERROR")
              /\ UNCHANGED <<ledger, handed, handedAccess>>
    /\ UNCHANGED <<clock, onetime, users, nextId, lineage, credential, succ, raced, limiter, started>>

\* ------------------------------------------------------------- POST /refresh
\* arrival: refreshRateLimit, the cookie, verifyRefreshToken,
\* prisma.refreshToken.findUnique({where: {id: payload.tokenId}, include: {user}})
\* and the checks on the row it returned; on the rotation path the new access
\* token is signed and the delete is issued
RefreshFind(r, token) ==
    /\ CanStart(r)
    /\ started' = started + 1
    /\ LET base == [IdleReq EXCEPT !.kind = "refresh", !.tok = token,
                        !.prior = {a.status : a \in {b \in answered : b.tok = token}}]
           found == [base EXCEPT !.user = token.userId]
           rotating == \E q \in Reqs : /\ req[q].kind = "refresh"
                                       /\ req[q].pc = "rotateDelete"
                                       /\ req[q].tok = token
       IN IF RateLimited(IpKey, RefreshMax)
            THEN TooManyRequests(base, IpKey) /\ UNCHANGED <<limiter, raced>>
          ELSE /\ Admit("refresh", IpKey)
               /\ IF token = NoToken
                    THEN Refuse(base, 401, "NO_REFRESH_TOKEN") /\ UNCHANGED raced
                  ELSE IF ~verifyRefreshToken(token)
                    THEN Refuse(base, 401, "INVALID_REFRESH_TOKEN") /\ UNCHANGED raced
                  ELSE IF ~HasRow(token.tokenId)
                    THEN Refuse(found, 401, "TOKEN_NOT_FOUND") /\ UNCHANGED raced
                  ELSE IF Row(token.tokenId).revoked
                    THEN Await(r, [found EXCEPT !.pc = "revokeAll"]) /\ UNCHANGED raced
                  ELSE IF Row(token.tokenId).expiresAt < now
                    THEN /\ Await(r, [found EXCEPT !.pc = "deleteExpired"])
                         /\ UNCHANGED raced
                  ELSE IF Row(token.tokenId).userId \notin DOMAIN users
                    THEN /\ Await(r, [found EXCEPT !.pc = "deleteOrphan"])
                         /\ UNCHANGED raced
                  ELSE /\ Await(r, [found EXCEPT !.pc = "rotateDelete",
                                    !.access = generateAccessToken(token.userId)])
                       /\ raced' = IF rotating THEN raced \cup {token} ELSE raced
    /\ UNCHANGED <<clock, onetime, store, handed, handedAccess, succ>>

\* replay: updateMany({where: {userId: payload.userId, revoked: false}}) and 401
RefreshRevokeAll(r) ==
    /\ req[r].kind = "refresh" /\ req[r].pc = "revokeAll"
    /\ ledger' = RevokeAllForUser(req[r].tok.userId)
    /\ Finish(r, 401, "TOKEN_REVOKED")
    /\ UNCHANGED <<clock, onetime, users, nextId, lineage, credential, handed, handedAccess, succ, raced,
                   limiter, started>>

\* faulty variant: the expired row is answered for but not deleted
RefreshKeepStale(r) ==
    /\ req[r].kind = "refresh" /\ req[r].pc \in {"deleteExpired", "deleteOrphan"}
    /\ IF req[r].pc = "deleteExpired"
         THEN Finish(r, 401, "TOKEN_EXPIRED")
         ELSE Finish(r, 401, "USER_NOT_FOUND")
    /\ UNCHANGED <<clock, onetime, store, handed, handedAccess, succ, raced,
                   limiter, started>>

\* prisma.refreshToken.delete({where: {id}}) of an expired (or orphaned) row; the
\* delete throws when the row is gone, which the handler's catch turns into 500
RefreshDeleteStale(r) ==
    /\ req[r].kind = "refresh" /\ req[r].pc \in {"deleteExpired", "deleteOrphan"}
    /\ IF HasRow(req[r].tok.tokenId)
         THEN /\ ledger' = ledger \ {Row(req[r].tok.tokenId)}
              /\ IF req[r].pc = "deleteExpired"
                   THEN Finish(r, 401, "TOKEN_EXPIRED")
                   ELSE Finish(r, 401, "USER_NOT_FOUND")
         ELSE /\ Finish(r, 500, "REFRESH_ERROR")
              /\ UNCHANGED ledger
    /\ UNCHANGED <<clock, onetime, users, nextId, lineage, credential, handed, handedAccess, succ, raced,
                   limiter, started>>

\* faulty variant: the rotation goes on without deleting the presented record
RefreshRotateKeep(r) ==
    /\ req[r].kind = "refresh" /\ req[r].pc = "rotateDelete"
    /\ Await(r, [req[r] EXCEPT !.pc = "create",
                  !.expiresAt = now + RefreshRecordDays * MinutesPerDay * Minute])
    /\ UNCHANGED <<clock, onetime, store, handed, handedAccess, succ, raced,
                   limiter, started>>

\* rotation, first half: prisma.refreshToken.delete({where: {id: payload.tokenId}});
\* then expiresAt is computed and the create is issued
RefreshRotateDelete(r) ==
    /\ req[r].kind = "refresh" /\ req[r].pc = "rotateDelete"
    /\ IF HasRow(req[r].tok.tokenId)
         THEN /\ ledger' = ledger \ {Row(req[r].tok.tokenId)}
              /\ Await(r, [req[r] EXCEPT !.pc = "create",
                        !.expiresAt = now + RefreshRecordDays * MinutesPerDay * Minute])
         ELSE /\ Finish(r, 500, "REFRESH_ERROR")
              /\ UNCHANGED ledger
    /\ UNCHANGED <<clock, onetime, users, nextId, lineage, credential, handed, handedAccess, succ, raced,
                   limiter, started>>

\* rotation, second half: prisma.refreshToken.create({data: {token: "temp", ...}}),
\* then generateRefreshToken with the new id
RefreshCreate(r) ==
    /\ req[r].kind = "refresh" /\ req[r].pc = "create"
    /\ nextId' = nextId + 1
    /\ IF UniqueTokenViolated(Temp)
         THEN /\ Finish(r, 500, "REFRESH_ERROR")
              /\ UNCHANGED <<ledger, lineage, credential>>
         ELSE /\ ledger' = ledger \cup
                    {[id |-> nextId, token |-> Temp, userId |-> req[r].tok.userId,
                      expiresAt |-> req[r].expiresAt, revoked |-> FALSE,
                      revokedAt |-> 0]}
              /\ lineage' = lineage @@ (nextId :> lineage[req[r].tok.tokenId])
              /\ credential' = credential @@ (nextId :> credential[req[r].tok.tokenId])
              /\ Await(r, [req[r] EXCEPT !.pc = "finalize", !.newId = nextId,
                        !.newTok = generateRefreshToken(req[r].tok.userId, nextId)])
    /\ UNCHANGED <<clock, onetime, users, handed, handedAccess, succ, raced, limiter,
                   started>>

\* faulty variant: the new token is handed out without being written to its record
RefreshFinalizeUnsigned(r) ==
    /\ req[r].kind = "refresh" /\ req[r].pc = "finalize"
    /\ FinishWithTokens(r)
    /\ succ' = succ \cup {<<req[r].tok, req[r].newTok>>}
    /\ UNCHANGED <<clock, onetime, store, raced, limiter, started>>

\* prisma.refreshToken.update({where: {id}, data: {token: newRefreshToken}}), cookie, 200
RefreshFinalize(r) ==
    /\ req[r].kind = "refresh" /\ req[r].pc = "finalize"
    /\ IF HasRow(req[r].newId)
         THEN /\ ledger' = (ledger \ {Row(req[r].newId)}) \cup
                    {[Row(req[r].newId) EXCEPT !.token = req[r].newTok]}
              /\ FinishWithTokens(r)
              /\ succ' = succ \cup {<<req[r].tok, req[r].newTok>>}
         ELSE /\ Finish(r, 500, "REFRESH_ERROR")
              /\ UNCHANGED <<ledger, handed, handedAccess, succ>>
    /\ UNCHANGED <<clock, onetime, users, nextId, lineage, credential, raced, limiter, started>>

\* -------------------------------------------------------------- POST /logout
\* arrival: the authentication guard with its prisma.user.findUnique, then the
\* refresh token of the body, cookie or header and verifyRefreshToken, whose throw
\* is caught: the cookies are cleared and 200 is sent
LogoutAuthenticate(r, access, token) ==
    /\ CanStart(r)
    /\ started' = started + 1
    /\ LET base == [IdleReq EXCEPT !.kind = "logout", !.tok = token, !.access = access]
           found == [base EXCEPT !.user = access.userId]
       IN IF authenticate(access) # ""
            THEN Refuse(base, 401, authenticate(access))
          ELSE IF token = NoToken \/ ~verifyRefreshToken(token)
            THEN Refuse(found, 200, "OK")
          ELSE Await(r, [found EXCEPT !.pc = "revoke"])
    /\ UNCHANGED <<clock, onetime, store, history, limiter>>

\* prisma.refreshToken.update({where: {id: payload.tokenId}, data: {revoked: true,
\* revokedAt: new Date()}}), whose throw (no such row) is caught; clearCookie, 200
LogoutRevoke(r) ==
    /\ req[r].kind = "logout" /\ req[r].pc = "revoke"
    /\ ledger' = IF HasRow(req[r].tok.tokenId)
                   THEN (ledger \ {Row(req[r].tok.tokenId)}) \cup
                        {[Row(req[r].tok.tokenId) EXCEPT !.revoked = TRUE,
                                                         !.revokedAt = now]}
                   ELSE ledger
    /\ Finish(r, 200, "OK")
    /\ UNCHANGED <<clock, onetime, users, nextId, lineage, credential, history, limiter,
                   started>>

\* ---------------------------------------------------------- POST /logout-all
\* arrival and the authentication guard with its prisma.user.findUnique
LogoutAllAuthenticate(r, token) ==
    /\ CanStart(r)
    /\ started' = started + 1
    /\ LET base == [IdleReq EXCEPT !.kind = "logoutAll", !.tok = token]
       IN IF authenticate(token) # ""
            THEN Refuse(base, 401, authenticate(token))
            ELSE Await(r, [base EXCEPT !.pc = "revokeAll", !.user = token.userId])
    /\ UNCHANGED <<clock, onetime, store, history, limiter>>

\* faulty variant: the records are marked revoked without the time of it
LogoutAllRevokeUnstamped(r) ==
    /\ req[r].kind = "logoutAll" /\ req[r].pc = "revokeAll"
    /\ ledger' = { IF t.userId = req[r].user /\ ~t.revoked
                      THEN [t EXCEPT !.revoked = TRUE]
                      ELSE t : t \in ledger }
    /\ Finish(r, 200, "OK")
    /\ UNCHANGED <<clock, onetime, users, nextId, lineage, credential, history, limiter, started>>

\* updateMany({where: {userId: req.user.id, revoked: false}}), clearCookie, 200
LogoutAllRevoke(r) ==
    /\ req[r].kind = "logoutAll" /\ req[r].pc = "revokeAll"
    /\ ledger' = RevokeAllForUser(req[r].user)
    /\ Finish(r, 200, "OK")
    /\ UNCHANGED <<clock, onetime, users, nextId, lineage, credential, history, limiter, started>>

\* ----------------------------------------------------------------- GET /me
\* arrival and the authentication guard: extractToken, the expiry peek,
\* verifyAccessToken, prisma.user.findUnique, req.user = {id, email, role}, next()
MeAuthenticate(r, header, cookie) ==
    /\ CanStart(r)
    /\ started' = started + 1
    /\ LET token == extractToken(header, cookie)
           base == [IdleReq EXCEPT !.kind = "me", !.bearer = header, !.access = cookie,
                                   !.tok = token]
       IN IF authenticate(token) # ""
            THEN Refuse(base, 401, authenticate(token))
            ELSE Await(r, [base EXCEPT !.pc = "find", !.user = token.userId,
                                       !.role = users[token.userId].role])
    /\ UNCHANGED <<clock, onetime, store, history, limiter>>

\* the handler's prisma.user.findUnique({where: {id: req.user.id}}): 200, or 404
MeFind(r) ==
    /\ req[r].kind = "me" /\ req[r].pc = "find"
    /\ IF req[r].user \in DOMAIN users
         THEN Finish(r, 200, "OK")
         ELSE Finish(r, 404, "USER_NOT_FOUND")
    /\ UNCHANGED <<clock, onetime, store, history, limiter, started>>

\* ------------------------------------------------------- DELETE /users/:id
\* arrival: the authentication guard, and the admin guard reading the role the
\* authentication guard attached; the delete is issued
DeleteUserAuthenticate(r, token, id) ==
    /\ CanStart(r)
    /\ started' = started + 1
    /\ LET base == [IdleReq EXCEPT !.kind = "deleteUser", !.tok = token, !.user = id]
       IN IF authenticate(token) # ""
            THEN Refuse(base, 401, authenticate(token))
          ELSE IF users[token.userId].role # "ADMIN"
            THEN Refuse(base, 403, "INSUFFICIENT_PERMISSIONS")
          ELSE Await(r, [base EXCEPT !.pc = "delete"])
    /\ UNCHANGED <<clock, onetime, store, history, limiter>>

\* prisma.user.delete({where: {id}}): the user's RefreshToken rows go with it (ON
\* DELETE CASCADE), 200; the delete throws when the row is gone (P2025): 404
DeleteUser(r) ==
    /\ req[r].kind = "deleteUser" /\ req[r].pc = "delete"
    /\ IF req[r].user \in DOMAIN users
         THEN /\ users' = [u \in DOMAIN users \ {req[r].user} |-> users[u]]
              /\ ledger' = {t \in ledger : t.userId # req[r].user}
              /\ Finish(r, 200, "OK")
         ELSE /\ Finish(r, 404, "")
              /\ UNCHANGED <<users, ledger>>
    /\ UNCHANGED <<clock, onetime, nextId, lineage, credential, history, limiter,
                   started>>

\* ----------------------------------------------------- PUT /users/:id/verify
\* arrival: the authentication and admin guards, prisma.user.findUnique({where:
\* {id}}), then generatePasswordSetupToken and the 24h expiry; the update is issued
AdminVerifyFind(r, token, id) ==
    /\ CanStart(r)
    /\ started' = started + 1
    /\ LET base == [IdleReq EXCEPT !.kind = "verify", !.tok = token, !.user = id]
       IN IF authenticate(token) # ""
            THEN Refuse(base, 401, authenticate(token)) /\ UNCHANGED nextSecret
          ELSE IF users[token.userId].role # "ADMIN"
            THEN Refuse(base, 403, "INSUFFICIENT_PERMISSIONS") /\ UNCHANGED nextSecret
          ELSE IF id \notin DOMAIN users
            THEN Refuse(base, 404, "") /\ UNCHANGED nextSecret
          ELSE /\ Await(r, [base EXCEPT !.pc = "update", !.newSecret = nextSecret,
                            !.expiresAt = now + SetupTokenHours * MinutesPerHour * Minute])
               /\ nextSecret' = nextSecret + 1
    /\ UNCHANGED <<clock, store, history, limiter, nextSalt, mailed, consumed>>

\* prisma.user.update({where: {id}, data: {isVerified: true, passwordSetupToken,
\* passwordSetupTokenExpiresAt}}); the mail is handed to the mail service
AdminVerifyUpdate(r) ==
    /\ req[r].kind = "verify" /\ req[r].pc = "update"
    /\ users' = [users EXCEPT ![req[r].user] =
            [@ EXCEPT !.isVerified = TRUE,
                      !.passwordSetupToken = req[r].newSecret,
                      !.passwordSetupTokenExpiresAt = req[r].expiresAt]]
    /\ Await(r, [req[r] EXCEPT !.pc = "send"])
    /\ UNCHANGED <<clock, onetime, ledger, nextId, lineage, credential, history, limiter,
                   started>>

\* faulty variant: a failed mail undoes the verification
AdminVerifySendRollback(r, sent) ==
    /\ req[r].kind = "verify" /\ req[r].pc = "send"
    /\ IF sent
         THEN /\ Finish(r, 200, "OK")
              /\ mailed' = mailed \cup {req[r].newSecret}
              /\ UNCHANGED users
         ELSE /\ Finish(r, 500, "EMAIL_SEND_FAILED")
              /\ users' = [users EXCEPT ![req[r].user] =
                    [@ EXCEPT !.isVerified = FALSE,
                              !.passwordSetupToken = NoSecret,
                              !.passwordSetupTokenExpiresAt = NoTime]]
              /\ UNCHANGED mailed
    /\ UNCHANGED <<clock, ledger, nextId, lineage, credential, history, limiter, started,
                   nextSecret, nextSalt, consumed>>

\* sendPasswordSetupEmail resolves or throws: 200, or 500 EMAIL_SEND_FAILED with
\* the update left in place
AdminVerifySend(r, sent) ==
    /\ req[r].kind = "verify" /\ req[r].pc = "send"
    /\ IF sent
         THEN Finish(r, 200, "OK") /\ mailed' = mailed \cup {req[r].newSecret}
         ELSE Finish(r, 500, "EMAIL_SEND_FAILED") /\ UNCHANGED mailed
    /\ UNCHANGED <<clock, store, history, limiter, started, nextSecret, nextSalt,
                   consumed>>

\* ------------------------------------------------------ POST /setup-password
\* arrival: the field and strength checks, prisma.user.findUnique({where:
\* {passwordSetupToken: token}}) and the checks on the row
SetupFind(r, secret, password) ==
    /\ CanStart(r)
    /\ started' = started + 1
    /\ LET base == [IdleReq EXCEPT !.kind = "setup", !.secret = secret,
                                   !.password = password]
           holders == {u \in DOMAIN users : users[u].passwordSetupToken = secret}
           user == CHOOSE u \in holders : TRUE
       IN IF secret = NoSecret
            THEN Refuse(base, 400, "MISSING_FIELDS")
          ELSE IF ~validatePassword(password)
            THEN Refuse(base, 400, "WEAK_PASSWORD")
          ELSE IF holders = {}
            THEN Refuse(base, 400, "INVALID_TOKEN")
          ELSE IF \/ users[user].passwordSetupTokenExpiresAt = NoTime
                  \/ users[user].passwordSetupTokenExpiresAt < now
            THEN Await(r, [base EXCEPT !.pc = "clearExpired", !.user = user])
          ELSE IF ~users[user].isVerified
            THEN Refuse([base EXCEPT !.user = user], 400, "USER_NOT_VERIFIED")
          ELSE Await(r, [base EXCEPT !.pc = "store", !.user = user])
    /\ UNCHANGED <<clock, onetime, store, history, limiter>>

\* faulty variant: the expired token is answered for and left in place
SetupKeepExpired(r) ==
    /\ req[r].kind = "setup" /\ req[r].pc = "clearExpired"
    /\ Finish(r, 400, "TOKEN_EXPIRED")
    /\ UNCHANGED <<clock, onetime, store, history, limiter, started>>

\* prisma.user.update({where: {id: user.id}, data: {passwordSetupToken: null,
\* passwordSetupTokenExpiresAt: null}}) and 400 TOKEN_EXPIRED
SetupClearExpired(r) ==
    /\ req[r].kind = "setup" /\ req[r].pc = "clearExpired"
    /\ users' = [users EXCEPT ![req[r].user] =
            [@ EXCEPT !.passwordSetupToken = NoSecret,
                      !.passwordSetupTokenExpiresAt = NoTime]]
    /\ Finish(r, 400, "TOKEN_EXPIRED")
    /\ UNCHANGED <<clock, onetime, ledger, nextId, lineage, credential, history, limiter,
                   started>>

\* faulty variant: the password is stored and the setup token left in place
SetupStoreKeepsToken(r) ==
    /\ req[r].kind = "setup" /\ req[r].pc = "store"
    /\ users' = [users EXCEPT ![req[r].user] =
            [@ EXCEPT !.password = hashPassword(req[r].password, nextSalt)]]
    /\ nextSalt' = nextSalt + 1
    /\ consumed' = consumed \cup {req[r].secret}
    /\ Finish(r, 200, "OK")
    /\ UNCHANGED <<clock, ledger, nextId, lineage, credential, history, limiter, started,
                   nextSecret, mailed>>

\* hashPassword, then prisma.user.update({where: {id: user.id}, data: {password,
\* passwordSetupToken: null, passwordSetupTokenExpiresAt: null}}) and 200
SetupStore(r) ==
    /\ req[r].kind = "setup" /\ req[r].pc = "store"
    /\ users' = [users EXCEPT ![req[r].user] =
            [@ EXCEPT !.password = hashPassword(req[r].password, nextSalt),
                      !.passwordSetupToken = NoSecret,
                      !.passwordSetupTokenExpiresAt = NoTime]]
    /\ nextSalt' = nextSalt + 1
    /\ consumed' = consumed \cup {req[r].secret}
    /\ Finish(r, 200, "OK")
    /\ UNCHANGED <<clock, ledger, nextId, lineage, credential, history, limiter, started,
                   nextSecret, mailed>>

\* ----------------------------------------------------- POST /forgot-password
\* arrival: forgotPasswordRateLimit, prisma.user.findUnique({where: {email}}) and
\* the checks that all answer the same 200; then the token and its 1h expiry are
\* made and the update is issued
ForgotFind(r, email) ==
    /\ CanStart(r)
    /\ started' = started + 1
    /\ LET base == [IdleReq EXCEPT !.kind = "forgot", !.email = email]
       IN IF RateLimited(ForgotKey(email), ForgotMax)
            THEN TooManyRequests(base, ForgotKey(email)) /\ UNCHANGED <<limiter, nextSecret>>
          ELSE /\ Admit("forgot-password", ForgotKey(email))
               /\ IF \/ sanitizeEmail(email) \notin DOMAIN users
                     \/ ~users[sanitizeEmail(email)].isVerified
                     \/ users[sanitizeEmail(email)].password = NoHash
                    THEN Refuse(base, 200, "OK") /\ UNCHANGED nextSecret
                    ELSE /\ Await(r, [base EXCEPT !.pc = "store",
                                !.user = sanitizeEmail(email),
                                !.newSecret = nextSecret,
                                !.expiresAt = now + ResetTokenHours * MinutesPerHour * Minute])
                         /\ nextSecret' = nextSecret + 1
    /\ UNCHANGED <<clock, store, history, nextSalt, mailed, consumed>>

\* prisma.user.update({where: {id}, data: {passwordResetToken,
\* passwordResetTokenExpiresAt}}); the mail is handed to the mail service
ForgotStore(r) ==
    /\ req[r].kind = "forgot" /\ req[r].pc = "store"
    /\ users' = [users EXCEPT ![req[r].user] =
            [@ EXCEPT !.passwordResetToken = req[r].newSecret,
                      !.passwordResetTokenExpiresAt = req[r].expiresAt]]
    /\ Await(r, [req[r] EXCEPT !.pc = "send"])
    /\ UNCHANGED <<clock, onetime, ledger, nextId, lineage, credential, history, limiter,
                   started>>

\* sendPasswordResetEmail resolves: 200; or throws: the clearing update is issued
ForgotSend(r, sent) ==
    /\ req[r].kind = "forgot" /\ req[r].pc = "send"
    /\ IF sent
         THEN Finish(r, 200, "OK") /\ mailed' = mailed \cup {req[r].newSecret}
         ELSE Await(r, [req[r] EXCEPT !.pc = "clear"]) /\ UNCHANGED mailed
    /\ UNCHANGED <<clock, store, history, limiter, started, nextSecret, nextSalt,
                   consumed>>

\* prisma.user.update({where: {id}, data: {passwordResetToken: null,
\* passwordResetTokenExpiresAt: null}}), the rethrow and the catch's 200
ForgotClear(r) ==
    /\ req[r].kind = "forgot" /\ req[r].pc = "clear"
    /\ users' = [users EXCEPT ![req[r].user] =
            [@ EXCEPT !.passwordResetToken = NoSecret,
                      !.passwordResetTokenExpiresAt = NoTime]]
    /\ Finish(r, 200, "OK")
    /\ UNCHANGED <<clock, onetime, ledger, nextId, lineage, credential, history, limiter,
                   started>>

\* ------------------------------------------------------ POST /reset-password
\* arrival: resetPasswordRateLimit, the field and strength checks,
\* prisma.user.findUnique({where: {passwordResetToken: token}}) and the checks
ResetFind(r, secret, password) ==
    /\ CanStart(r)
    /\ started' = started + 1
    /\ LET base == [IdleReq EXCEPT !.kind = "reset", !.secret = secret,
                                   !.password = password]
           holders == {u \in DOMAIN users : users[u].passwordResetToken = secret}
           user == CHOOSE u \in holders : TRUE
       IN IF RateLimited(IpKey, ResetMax)
            THEN TooManyRequests(base, IpKey) /\ UNCHANGED limiter
          ELSE /\ Admit("reset-password", IpKey)
               /\ IF secret = NoSecret
                    THEN Refuse(base, 400, "MISSING_FIELDS")
                  ELSE IF ~validatePassword(password)
                    THEN Refuse(base, 400, "WEAK_PASSWORD")
                  ELSE IF holders = {}
                    THEN Refuse(base, 400, "INVALID_TOKEN")
                  ELSE IF \/ users[user].passwordResetTokenExpiresAt = NoTime
                          \/ users[user].passwordResetTokenExpiresAt < now
                    THEN Await(r, [base EXCEPT !.pc = "clearExpired", !.user = user])
                  ELSE IF ~users[user].isVerified
                    THEN Refuse([base EXCEPT !.user = user], 400, "USER_NOT_VERIFIED")
                  ELSE Await(r, [base EXCEPT !.pc = "store", !.user = user])
    /\ UNCHANGED <<clock, onetime, store, history>>

\* prisma.user.update({where: {id: user.id}, data: {passwordResetToken: null,
\* passwordResetTokenExpiresAt: null}}) and 400 TOKEN_EXPIRED
ResetClearExpired(r) ==
    /\ req[r].kind = "reset" /\ req[r].pc = "clearExpired"
    /\ users' = [users EXCEPT ![req[r].user] =
            [@ EXCEPT !.passwordResetToken = NoSecret,
                      !.passwordResetTokenExpiresAt = NoTime]]
    /\ Finish(r, 400, "TOKEN_EXPIRED")
    /\ UNCHANGED <<clock, onetime, ledger, nextId, lineage, credential, history, limiter,
                   started>>

\* faulty variant: the password update clears the setup token as well
ResetStoreClearsBoth(r) ==
    /\ req[r].kind = "reset" /\ req[r].pc = "store"
    /\ users' = [users EXCEPT ![req[r].user] =
            [@ EXCEPT !.password = hashPassword(req[r].password, nextSalt),
                      !.passwordResetToken = NoSecret,
                      !.passwordResetTokenExpiresAt = NoTime,
                      !.passwordSetupToken = NoSecret,
                      !.passwordSetupTokenExpiresAt = NoTime]]
    /\ nextSalt' = nextSalt + 1
    /\ consumed' = consumed \cup {req[r].secret}
    /\ Await(r, [req[r] EXCEPT !.pc = "revoke"])
    /\ UNCHANGED <<clock, ledger, nextId, lineage, credential, history, limiter, started,
                   nextSecret, mailed>>

\* hashPassword, then prisma.user.update({where: {id: user.id}, data: {password,
\* passwordResetToken: null, passwordResetTokenExpiresAt: null}}); the updateMany
\* is issued
ResetStore(r) ==
    /\ req[r].kind = "reset" /\ req[r].pc = "store"
    /\ users' = [users EXCEPT ![req[r].user] =
            [@ EXCEPT !.password = hashPassword(req[r].password, nextSalt),
                      !.passwordResetToken = NoSecret,
                      !.passwordResetTokenExpiresAt = NoTime]]
    /\ nextSalt' = nextSalt + 1
    /\ consumed' = consumed \cup {req[r].secret}
    /\ Await(r, [req[r] EXCEPT !.pc = "revoke"])
    /\ UNCHANGED <<clock, ledger, nextId, lineage, credential, history, limiter, started,
                   nextSecret, mailed>>

\* faulty variant: the password is reset and the sessions are left alone
ResetKeepSessions(r) ==
    /\ req[r].kind = "reset" /\ req[r].pc = "revoke"
    /\ Finish(r, 200, "OK")
    /\ UNCHANGED <<clock, onetime, store, history, limiter, started>>

\* prisma.refreshToken.updateMany({where: {userId: user.id, revoked: false}, data:
\* {revoked: true, revokedAt}}) and 200
ResetRevoke(r) ==
    /\ req[r].kind = "reset" /\ req[r].pc = "revoke"
    /\ ledger' = RevokeAllForUser(req[r].user)
    /\ Finish(r, 200, "OK")
    /\ UNCHANGED <<clock, onetime, users, nextId, lineage, credential, history, limiter,
                   started>>

\* -------------------------------------------------------------------- clock
\* time passes: more than the lifetime of a ledger record
TickSteps == {(RefreshRecordDays + 1) * MinutesPerDay * Minute}

Tick(d) ==
    /\ ticks < MaxTicks
    /\ now' = now + d
    /\ ticks' = ticks + 1
    /\ UNCHANGED <<refreshExpiry, budget, followed, store, history, answered, closed, onetime, limiter, req,
                   started, resp>>

\* time passes, any number of times within the span a burst is followed for
Elapse(d) ==
    /\ now + d <= MaxElapsedMinutes * Minute
    /\ now' = now + d
    /\ UNCHANGED <<ticks, refreshExpiry, budget, followed, store, history, answered, closed, onetime,
                   limiter, req, started, resp>>

\* ------------------------------------------------------------ specification
SeedUser(u) ==
    [isVerified |-> SeedVerified(u), role |-> SeedRole(u),
     password |-> hashPassword(SeedPassword, 1),
     passwordSetupToken |-> NoSecret, passwordSetupTokenExpiresAt |-> NoTime,
     passwordResetToken |-> NoSecret, passwordResetTokenExpiresAt |-> NoTime]

Init ==
    /\ now = 0
    /\ ticks = 0
    /\ refreshExpiry \in {DefaultRefreshExpiryDays * MinutesPerDay * Minute,
                          LongRefreshExpiryDays * MinutesPerDay * Minute}
    /\ users = [u \in Users |-> SeedUser(u)]
    /\ ledger = {}
    /\ nextId = 1
    /\ rateLimitStore = [k \in LimiterKeys |-> NoRecord]
    /\ admitted = [k \in LimiterKeys |-> NoTally]
    /\ budget = MaxReq
    /\ followed = {}
    /\ req = [r \in Reqs |-> IdleReq]
    /\ started = 0
    /\ resp = NoResp
    /\ lineage = <<>>
    /\ credential = <<>>
    /\ handed = {}
    /\ handedAccess = {}
    /\ succ = {}
    /\ answered = {}
    /\ raced = {}
    /\ closed = {}
    /\ nextSecret = 1
    /\ nextSalt = 2
    /\ mailed = {}
    /\ consumed = {}

Next ==
    \/ \E r \in Reqs, e \in RegisterEmails \cup Users : RegisterFind(r, e)
    \/ \E r \in Reqs : RegisterCreate(r)
    \/ \E r \in Reqs, e \in Users \cup {UnknownEmail}, p \in Passwords :
            LoginFindUser(r, e, p)
    \/ \E r \in Reqs : LoginCompare(r)
    \/ \E r \in Reqs : LoginCreate(r)
    \/ \E r \in Reqs : LoginFinalize(r)
    \/ \E r \in Reqs, t \in handed \cup {NoToken, Forged} : RefreshFind(r, t)
    \/ \E r \in Reqs : RefreshRevokeAll(r)
    \/ \E r \in Reqs : RefreshDeleteStale(r)
    \/ \E r \in Reqs : RefreshRotateDelete(r)
    \/ \E r \in Reqs : RefreshCreate(r)
    \/ \E r \in Reqs : RefreshFinalize(r)
    \/ \E r \in Reqs, t \in handedAccess \cup {NoToken} : LogoutAllAuthenticate(r, t)
    \/ \E r \in Reqs : LogoutAllRevoke(r)
    \/ \E r \in Reqs, t \in handedAccess \cup {NoToken}, u \in Users \cup {NoUser} :
            AdminVerifyFind(r, t, u)
    \/ \E r \in Reqs : AdminVerifyUpdate(r)
    \/ \E r \in Reqs, sent \in BOOLEAN : AdminVerifySend(r, sent)
    \/ \E r \in Reqs, s \in mailed \cup {NoSecret}, p \in Passwords : SetupFind(r, s, p)
    \/ \E r \in Reqs : SetupClearExpired(r)
    \/ \E r \in Reqs : SetupStore(r)
    \/ \E r \in Reqs, e \in Users \cup {UnknownEmail} : ForgotFind(r, e)
    \/ \E r \in Reqs : ForgotStore(r)
    \/ \E r \in Reqs, sent \in BOOLEAN : ForgotSend(r, sent)
    \/ \E r \in Reqs : ForgotClear(r)
    \/ \E r \in Reqs, s \in mailed \cup {NoSecret}, p \in Passwords : ResetFind(r, s, p)
    \/ \E r \in Reqs : ResetClearExpired(r)
    \/ \E r \in Reqs : ResetStore(r)
    \/ \E r \in Reqs : ResetRevoke(r)
    \/ \E d \in TickSteps \cup {SetupTokenHours * MinutesPerHour * Minute + 1} : Tick(d)

Spec == Init /\ [][Next]_vars

\* The session requests with no time passing: every interleaving of the awaits.
\* (No record expires, so the refresh handler's expiry branch is not taken.)
NextRace ==
    \/ \E r \in Reqs, e \in Users \cup {UnknownEmail}, p \in Passwords :
            LoginFindUser(r, e, p)
    \/ \E r \in Reqs : LoginCompare(r)
    \/ \E r \in Reqs : LoginCreate(r)
    \/ \E r \in Reqs : LoginFinalize(r)
    \/ \E r \in Reqs, t \in handed \cup {NoToken, Forged} : RefreshFind(r, t)
    \/ \E r \in Reqs : RefreshRevokeAll(r)
    \/ \E r \in Reqs : RefreshRotateDelete(r)
    \/ \E r \in Reqs : RefreshCreate(r)
    \/ \E r \in Reqs : RefreshFinalize(r)
    \/ \E r \in Reqs, t \in handedAccess \cup {NoToken} : LogoutAllAuthenticate(r, t)
    \/ \E r \in Reqs : LogoutAllRevoke(r)

SpecRace == Init /\ [][NextRace]_vars

\* One request at a time, with time passing between and within requests.
NoneInFlight == \A q \in Reqs : ~InFlight(q)

NextSeq ==
    \/ \E r \in Reqs, e \in Users \cup {UnknownEmail}, p \in Passwords :
            NoneInFlight /\ LoginFindUser(r, e, p)
    \/ \E r \in Reqs : LoginCompare(r)
    \/ \E r \in Reqs : LoginCreate(r)
    \/ \E r \in Reqs : LoginFinalize(r)
    \/ \E r \in Reqs, t \in handed \cup {NoToken, Forged} :
            NoneInFlight /\ RefreshFind(r, t)
    \/ \E r \in Reqs : RefreshRevokeAll(r)
    \/ \E r \in Reqs : RefreshDeleteStale(r)
    \/ \E r \in Reqs : RefreshRotateDelete(r)
    \/ \E r \in Reqs : RefreshCreate(r)
    \/ \E r \in Reqs : RefreshFinalize(r)
    \/ \E r \in Reqs, t \in handedAccess \cup {NoToken} :
            NoneInFlight /\ LogoutAllAuthenticate(r, t)
    \/ \E r \in Reqs : LogoutAllRevoke(r)
    \/ \E d \in TickSteps : Tick(d)

SpecSeq == Init /\ [][NextSeq]_vars

\* The session requests from an address that has used up the refresh limiter's
\* window; time passes by more than the window or more than a record's lifetime.
InitLimited ==
    /\ now = 0
    /\ ticks = 0
    /\ refreshExpiry \in {DefaultRefreshExpiryDays * MinutesPerDay * Minute,
                          LongRefreshExpiryDays * MinutesPerDay * Minute}
    /\ users = [u \in Users |-> SeedUser(u)]
    /\ ledger = {}
    /\ nextId = 1
    /\ rateLimitStore = [k \in LimiterKeys |->
            IF k = IpKey
              THEN [count |-> RefreshMax, resetTime |-> RefreshWindowMinutes * Minute]
              ELSE NoRecord]
    /\ admitted = [k \in LimiterKeys |->
            IF k = IpKey
              THEN [NoTally EXCEPT !.by["refresh"] = RefreshMax]
              ELSE NoTally]
    /\ budget = MaxReq
    /\ followed = {}
    /\ req = [r \in Reqs |-> IdleReq]
    /\ started = 0
    /\ resp = NoResp
    /\ lineage = <<>>
    /\ credential = <<>>
    /\ handed = {}
    /\ handedAccess = {}
    /\ succ = {}
    /\ answered = {}
    /\ raced = {}
    /\ closed = {}
    /\ nextSecret = 1
    /\ nextSalt = 2
    /\ mailed = {}
    /\ consumed = {}

LimitedTickSteps == {RefreshWindowMinutes * Minute + 1} \cup TickSteps

NextLimited ==
    \/ \E r \in Reqs, e \in Users \cup {UnknownEmail}, p \in Passwords :
            LoginFindUser(r, e, p)
    \/ \E r \in Reqs : LoginCompare(r)
    \/ \E r \in Reqs : LoginCreate(r)
    \/ \E r \in Reqs : LoginFinalize(r)
    \/ \E r \in Reqs, t \in handed \cup {NoToken, Forged} : RefreshFind(r, t)
    \/ \E r \in Reqs : RefreshRevokeAll(r)
    \/ \E r \in Reqs : RefreshDeleteStale(r)
    \/ \E r \in Reqs : RefreshRotateDelete(r)
    \/ \E r \in Reqs : RefreshCreate(r)
    \/ \E r \in Reqs : RefreshFinalize(r)
    \/ \E r \in Reqs, t \in handedAccess \cup {NoToken} : LogoutAllAuthenticate(r, t)
    \/ \E r \in Reqs : LogoutAllRevoke(r)
    \/ \E d \in LimitedTickSteps : Tick(d)

SpecLimited == InitLimited /\ [][NextLimited]_vars

\* The one-time tokens, one request at a time: logins (an administrator's among
\* them), verification, forgot-password, setup-password and reset-password, with
\* time passing by more than a setup token's lifetime.
PasswordTickSteps == {SetupTokenHours * MinutesPerHour * Minute + 1}

NextPassword ==
    \/ \E r \in Reqs, e \in Users \cup {UnknownEmail}, p \in Passwords :
            NoneInFlight /\ LoginFindUser(r, e, p)
    \/ \E r \in Reqs : LoginCompare(r)
    \/ \E r \in Reqs : LoginCreate(r)
    \/ \E r \in Reqs : LoginFinalize(r)
    \/ \E r \in Reqs, t \in handedAccess \cup {NoToken}, u \in Users \cup {NoUser} :
            NoneInFlight /\ AdminVerifyFind(r, t, u)
    \/ \E r \in Reqs : AdminVerifyUpdate(r)
    \/ \E r \in Reqs, sent \in BOOLEAN : AdminVerifySend(r, sent)
    \/ \E r \in Reqs, s \in mailed \cup {NoSecret}, p \in Passwords :
            NoneInFlight /\ SetupFind(r, s, p)
    \/ \E r \in Reqs : SetupClearExpired(r)
    \/ \E r \in Reqs : SetupStore(r)
    \/ \E r \in Reqs, e \in Users \cup {UnknownEmail} :
            NoneInFlight /\ ForgotFind(r, e)
    \/ \E r \in Reqs : ForgotStore(r)
    \/ \E r \in Reqs, sent \in BOOLEAN : ForgotSend(r, sent)
    \/ \E r \in Reqs : ForgotClear(r)
    \/ \E r \in Reqs, s \in mailed \cup {NoSecret}, p \in Passwords :
            NoneInFlight /\ ResetFind(r, s, p)
    \/ \E r \in Reqs : ResetClearExpired(r)
    \/ \E r \in Reqs : ResetStore(r)
    \/ \E r \in Reqs : ResetRevoke(r)
    \/ \E d \in PasswordTickSteps : Tick(d)

SpecPassword == Init /\ [][NextPassword]_vars

\* The one-time tokens with no time passing: every interleaving of the awaits of
\* login, verification, forgot-password, setup-password and reset-password.  (No
\* one-time token expires, so the expiry branches are not taken.)
NextPasswordRace ==
    \/ \E r \in Reqs, e \in Users \cup {UnknownEmail}, p \in Passwords :
            LoginFindUser(r, e, p)
    \/ \E r \in Reqs : LoginCompare(r)
    \/ \E r \in Reqs : LoginCreate(r)
    \/ \E r \in Reqs : LoginFinalize(r)
    \/ \E r \in Reqs, t \in handedAccess \cup {NoToken}, u \in Users \cup {NoUser} :
            AdminVerifyFind(r, t, u)
    \/ \E r \in Reqs : AdminVerifyUpdate(r)
    \/ \E r \in Reqs, sent \in BOOLEAN : AdminVerifySend(r, sent)
    \/ \E r \in Reqs, s \in mailed \cup {NoSecret}, p \in Passwords : SetupFind(r, s, p)
    \/ \E r \in Reqs : SetupStore(r)
    \/ \E r \in Reqs, e \in Users \cup {UnknownEmail} : ForgotFind(r, e)
    \/ \E r \in Reqs : ForgotStore(r)
    \/ \E r \in Reqs, sent \in BOOLEAN : ForgotSend(r, sent)
    \/ \E r \in Reqs : ForgotClear(r)
    \/ \E r \in Reqs, s \in mailed \cup {NoSecret}, p \in Passwords : ResetFind(r, s, p)
    \/ \E r \in Reqs : ResetStore(r)
    \/ \E r \in Reqs : ResetRevoke(r)

SpecPasswordRace == Init /\ [][NextPasswordRace]_vars

\* Sessions and the password reset, one request at a time and no time passing:
\* login, refresh, forgot-password and reset-password.  (Nothing expires.)
NextReset ==
    \/ \E r \in Reqs, e \in Users \cup {UnknownEmail}, p \in Passwords :
            NoneInFlight /\ LoginFindUser(r, e, p)
    \/ \E r \in Reqs : LoginCompare(r)
    \/ \E r \in Reqs : LoginCreate(r)
    \/ \E r \in Reqs : LoginFinalize(r)
    \/ \E r \in Reqs, t \in handed \cup {NoToken, Forged} :
            NoneInFlight /\ RefreshFind(r, t)
    \/ \E r \in Reqs : RefreshRevokeAll(r)
    \/ \E r \in Reqs : RefreshRotateDelete(r)
    \/ \E r \in Reqs : RefreshCreate(r)
    \/ \E r \in Reqs : RefreshFinalize(r)
    \/ \E r \in Reqs, e \in Users \cup {UnknownEmail} :
            NoneInFlight /\ ForgotFind(r, e)
    \/ \E r \in Reqs : ForgotStore(r)
    \/ \E r \in Reqs, sent \in BOOLEAN : ForgotSend(r, sent)
    \/ \E r \in Reqs : ForgotClear(r)
    \/ \E r \in Reqs, s \in mailed \cup {NoSecret}, p \in Passwords :
            NoneInFlight /\ ResetFind(r, s, p)
    \/ \E r \in Reqs : ResetStore(r)
    \/ \E r \in Reqs : ResetRevoke(r)

SpecReset == Init /\ [][NextReset]_vars

\* Sessions and the password reset with no time passing: every interleaving of the
\* awaits of login, refresh, forgot-password and reset-password.
NextResetRace ==
    \/ \E r \in Reqs, e \in Users \cup {UnknownEmail}, p \in Passwords :
            LoginFindUser(r, e, p)
    \/ \E r \in Reqs : LoginCompare(r)
    \/ \E r \in Reqs : LoginCreate(r)
    \/ \E r \in Reqs : LoginFinalize(r)
    \/ \E r \in Reqs, t \in handed \cup {NoToken, Forged} : RefreshFind(r, t)
    \/ \E r \in Reqs : RefreshRevokeAll(r)
    \/ \E r \in Reqs : RefreshRotateDelete(r)
    \/ \E r \in Reqs : RefreshCreate(r)
    \/ \E r \in Reqs : RefreshFinalize(r)
    \/ \E r \in Reqs, e \in Users \cup {UnknownEmail} : ForgotFind(r, e)
    \/ \E r \in Reqs : ForgotStore(r)
    \/ \E r \in Reqs, sent \in BOOLEAN : ForgotSend(r, sent)
    \/ \E r \in Reqs : ForgotClear(r)
    \/ \E r \in Reqs, s \in mailed \cup {NoSecret}, p \in Passwords : ResetFind(r, s, p)
    \/ \E r \in Reqs : ResetStore(r)
    \/ \E r \in Reqs : ResetRevoke(r)

SpecResetRace == Init /\ [][NextResetRace]_vars

\* The life of an account, one request at a time and no time passing, with the
\* administrator (user 1) already logged in: register, login, verification and
\* setup-password for the new address in either spelling and for an address nobody
\* registers.
AdminSession ==
    [id |-> 1, token |-> generateRefreshToken(1, 1), userId |-> 1,
     expiresAt |-> RefreshRecordDays * MinutesPerDay * Minute, revoked |-> FALSE, revokedAt |-> 0]

InitLifecycle ==
    /\ now = 0
    /\ ticks = 0
    /\ refreshExpiry \in {DefaultRefreshExpiryDays * MinutesPerDay * Minute,
                          LongRefreshExpiryDays * MinutesPerDay * Minute}
    /\ users = [u \in Users |-> SeedUser(u)]
    /\ ledger = {AdminSession}
    /\ nextId = 2
    /\ rateLimitStore = [k \in LimiterKeys |->
            IF k = LoginKey(1)
              THEN [count |-> 1, resetTime |-> LoginWindowMinutes * Minute]
              ELSE NoRecord]
    /\ admitted = [k \in LimiterKeys |->
            IF k = LoginKey(1) THEN [NoTally EXCEPT !.by["login"] = 1] ELSE NoTally]
    /\ budget = MaxReq
    /\ followed = {}
    /\ req = [r \in Reqs |-> IdleReq]
    /\ started = 0
    /\ resp = NoResp
    /\ lineage = 1 :> 1
    /\ credential = 1 :> SeedUser(1).password
    /\ handed = {generateRefreshToken(1, 1)}
    /\ handedAccess = {generateAccessToken(1)}
    /\ succ = {}
    /\ answered = {}
    /\ raced = {}
    /\ closed = {}
    /\ nextSecret = 1
    /\ nextSalt = 2
    /\ mailed = {}
    /\ consumed = {}

LifecycleEmails == RegisterEmails \cup {UnknownEmail}

NextLifecycle ==
    \/ \E r \in Reqs, e \in RegisterEmails : NoneInFlight /\ RegisterFind(r, e)
    \/ \E r \in Reqs : RegisterCreate(r)
    \/ \E r \in Reqs, e \in LifecycleEmails, p \in Passwords :
            NoneInFlight /\ LoginFindUser(r, e, p)
    \/ \E r \in Reqs : LoginCompare(r)
    \/ \E r \in Reqs : LoginCreate(r)
    \/ \E r \in Reqs : LoginFinalize(r)
    \/ \E r \in Reqs, t \in handedAccess \cup {NoToken}, u \in Emails :
            NoneInFlight /\ AdminVerifyFind(r, t, u)
    \/ \E r \in Reqs : AdminVerifyUpdate(r)
    \/ \E r \in Reqs, sent \in BOOLEAN : AdminVerifySend(r, sent)
    \/ \E r \in Reqs, s \in mailed \cup {NoSecret}, p \in Passwords :
            NoneInFlight /\ SetupFind(r, s, p)
    \/ \E r \in Reqs : SetupStore(r)

SpecLifecycle == InitLifecycle /\ [][NextLifecycle]_vars

\* The limiters: requests of the five limited routes that their handlers answer
\* before the first await (an unknown address, a registered one, no cookie, no
\* token), so that nothing but the limiter's store changes; time passes by half a
\* second or by exactly the login window (longer than the refresh window, as long
\* as the reset-password window, shorter than the other two).
InitLimiter ==
    /\ now = 0
    /\ ticks = 0
    /\ refreshExpiry = DefaultRefreshExpiryDays * MinutesPerDay * Minute
    /\ users = [u \in Users |-> SeedUser(u)]
    /\ ledger = {}
    /\ nextId = 1
    /\ rateLimitStore = [k \in LimiterKeys |-> NoRecord]
    /\ admitted = [k \in LimiterKeys |-> NoTally]
    /\ budget = MaxHits
    /\ followed = {}
    /\ req = [r \in Reqs |-> IdleReq]
    /\ started = 0
    /\ resp = NoResp
    /\ lineage = <<>>
    /\ credential = <<>>
    /\ handed = {}
    /\ handedAccess = {}
    /\ succ = {}
    /\ answered = {}
    /\ raced = {}
    /\ closed = {}
    /\ nextSecret = 1
    /\ nextSalt = 2
    /\ mailed = {}
    /\ consumed = {}

LimiterTickSteps ==
    {MsPerSecond \div (2 * MsPerUnit), LoginWindowMinutes * Minute}

NextLimiter ==
    \/ \E r \in Reqs : RegisterFind(r, 1)
    \/ \E r \in Reqs : LoginFindUser(r, UnknownEmail, SeedPassword)
    \/ \E r \in Reqs : RefreshFind(r, NoToken)
    \/ \E r \in Reqs : ForgotFind(r, UnknownEmail)
    \/ \E r \in Reqs : ResetFind(r, NoSecret, SeedPassword)
    \/ \E d \in LimiterTickSteps : Tick(d)

SpecLimiter == InitLimiter /\ [][NextLimiter]_vars

\* The limiters that count under the bare address (refresh, register and
\* reset-password), the times of their admissions being kept, with time passing by
\* just over the reset-password window, up to an hour in all.
InitBurst ==
    /\ now = 0
    /\ ticks = 0
    /\ refreshExpiry = DefaultRefreshExpiryDays * MinutesPerDay * Minute
    /\ users = [u \in Users |-> SeedUser(u)]
    /\ ledger = {}
    /\ nextId = 1
    /\ rateLimitStore = [k \in LimiterKeys |-> NoRecord]
    /\ admitted = [k \in LimiterKeys |-> NoTally]
    /\ budget = MaxHits
    /\ followed = Limiters
    /\ req = [r \in Reqs |-> IdleReq]
    /\ started = 0
    /\ resp = NoResp
    /\ lineage = <<>>
    /\ credential = <<>>
    /\ handed = {}
    /\ handedAccess = {}
    /\ succ = {}
    /\ answered = {}
    /\ raced = {}
    /\ closed = {}
    /\ nextSecret = 1
    /\ nextSalt = 2
    /\ mailed = {}
    /\ consumed = {}

BurstSteps == {ResetWindowMinutes * Minute + 1}

NextBurst ==
    \/ \E r \in Reqs : RegisterFind(r, 1)
    \/ \E r \in Reqs : RefreshFind(r, NoToken)
    \/ \E r \in Reqs : ResetFind(r, NoSecret, SeedPassword)
    \/ \E d \in BurstSteps : Elapse(d)

SpecBurst == InitBurst /\ [][NextBurst]_vars

\* Ending sessions, a minute or more after the clock's zero: every interleaving of
\* the awaits of login, refresh, logout and logout-all, with time passing by a
\* minute.
InitLogout ==
    /\ now = Minute
    /\ ticks = 0
    /\ refreshExpiry = DefaultRefreshExpiryDays * MinutesPerDay * Minute
    /\ users = [u \in Users |-> SeedUser(u)]
    /\ ledger = {}
    /\ nextId = 1
    /\ rateLimitStore = [k \in LimiterKeys |-> NoRecord]
    /\ admitted = [k \in LimiterKeys |-> NoTally]
    /\ budget = MaxReq
    /\ followed = {}
    /\ req = [r \in Reqs |-> IdleReq]
    /\ started = 0
    /\ resp = NoResp
    /\ lineage = <<>>
    /\ credential = <<>>
    /\ handed = {}
    /\ handedAccess = {}
    /\ succ = {}
    /\ answered = {}
    /\ raced = {}
    /\ closed = {}
    /\ nextSecret = 1
    /\ nextSalt = 2
    /\ mailed = {}
    /\ consumed = {}

LogoutTickSteps == {Minute}

NextLogout ==
    \/ \E r \in Reqs, e \in Users : LoginFindUser(r, e, SeedPassword)
    \/ \E r \in Reqs : LoginCompare(r)
    \/ \E r \in Reqs : LoginCreate(r)
    \/ \E r \in Reqs : LoginFinalize(r)
    \/ \E r \in Reqs, t \in handed : RefreshFind(r, t)
    \/ \E r \in Reqs : RefreshRevokeAll(r)
    \/ \E r \in Reqs : RefreshRotateDelete(r)
    \/ \E r \in Reqs : RefreshCreate(r)
    \/ \E r \in Reqs : RefreshFinalize(r)
    \/ \E r \in Reqs, a \in handedAccess \cup {NoToken}, t \in handed \cup {NoToken, Forged} :
            LogoutAuthenticate(r, a, t)
    \/ \E r \in Reqs : LogoutRevoke(r)
    \/ \E r \in Reqs, t \in handedAccess : LogoutAllAuthenticate(r, t)
    \/ \E r \in Reqs : LogoutAllRevoke(r)
    \/ \E d \in LogoutTickSteps : Tick(d)

SpecLogout == InitLogout /\ [][NextLogout]_vars

\* forgot-password for every kind of account, with the administrator (user 1)
\* already logged in and no time passing: every interleaving of the awaits of
\* register, verification and forgot-password, the address being one nobody has,
\* one that gets registered and then verified, or that of a seeded user.
ForgotEmails == RegisterEmails \cup {UnknownEmail, NumUsers}

NextForgot ==
    \/ \E r \in Reqs, e \in RegisterEmails : RegisterFind(r, e)
    \/ \E r \in Reqs : RegisterCreate(r)
    \/ \E r \in Reqs, t \in handedAccess, u \in {NewEmail} : AdminVerifyFind(r, t, u)
    \/ \E r \in Reqs : AdminVerifyUpdate(r)
    \/ \E r \in Reqs, sent \in BOOLEAN : AdminVerifySend(r, sent)
    \/ \E r \in Reqs, e \in ForgotEmails : ForgotFind(r, e)
    \/ \E r \in Reqs : ForgotStore(r)
    \/ \E r \in Reqs, sent \in BOOLEAN : ForgotSend(r, sent)
    \/ \E r \in Reqs : ForgotClear(r)

SpecForgot == InitLifecycle /\ [][NextForgot]_vars

\* Verification and what follows it, one request at a time and no time passing,
\* with the administrator (user 1) already logged in: register, verification with
\* the mail sent or failing, and setup-password presenting any token string that
\* was stored, delivered or not.
Issued == 1 .. (nextSecret - 1)

NextVerify ==
    \/ \E r \in Reqs, e \in RegisterEmails : NoneInFlight /\ RegisterFind(r, e)
    \/ \E r \in Reqs : RegisterCreate(r)
    \/ \E r \in Reqs, t \in handedAccess, u \in {NumUsers, NewEmail} :
            NoneInFlight /\ AdminVerifyFind(r, t, u)
    \/ \E r \in Reqs : AdminVerifyUpdate(r)
    \/ \E r \in Reqs, sent \in BOOLEAN : AdminVerifySend(r, sent)
    \/ \E r \in Reqs, s \in Issued, p \in Passwords :
            NoneInFlight /\ SetupFind(r, s, p)
    \/ \E r \in Reqs : SetupStore(r)

SpecVerify == InitLifecycle /\ [][NextVerify]_vars

\* The authentication guard, with the administrator (user 1) and the last seeded
\* user logged in: every interleaving of the awaits of GET /me, presenting in header
\* and cookie any token handed out or made up, and of the administrator's deleting
\* that user, with time passing beyond the life of an access token.
UserSession ==
    [id |-> 2, token |-> generateRefreshToken(NumUsers, 2), userId |-> NumUsers,
     expiresAt |-> RefreshRecordDays * MinutesPerDay * Minute, revoked |-> FALSE,
     revokedAt |-> 0]

InitGuard ==
    /\ now = 0
    /\ ticks = 0
    /\ refreshExpiry = DefaultRefreshExpiryDays * MinutesPerDay * Minute
    /\ users = [u \in Users |-> SeedUser(u)]
    /\ ledger = {AdminSession, UserSession}
    /\ nextId = 3
    /\ rateLimitStore = [k \in LimiterKeys |->
            IF k \in {LoginKey(1), LoginKey(NumUsers)}
              THEN [count |-> 1, resetTime |-> LoginWindowMinutes * Minute]
              ELSE NoRecord]
    /\ admitted = [k \in LimiterKeys |->
            IF k \in {LoginKey(1), LoginKey(NumUsers)}
              THEN [NoTally EXCEPT !.by["login"] = 1]
              ELSE NoTally]
    /\ budget = MaxReq
    /\ followed = {}
    /\ req = [r \in Reqs |-> IdleReq]
    /\ started = 0
    /\ resp = NoResp
    /\ lineage = (1 :> 1) @@ (2 :> 2)
    /\ credential = (1 :> SeedUser(1).password) @@ (2 :> SeedUser(NumUsers).password)
    /\ handed = {generateRefreshToken(1, 1), generateRefreshToken(NumUsers, 2)}
    /\ handedAccess = {generateAccessToken(1), generateAccessToken(NumUsers)}
    /\ succ = {}
    /\ answered = {}
    /\ raced = {}
    /\ closed = {}
    /\ nextSecret = 1
    /\ nextSalt = 2
    /\ mailed = {}
    /\ consumed = {}

GuardTokens == handedAccess \cup handed \cup {NoToken, ForgedAccess, Foreign}
GuardTickSteps == {AccessExpiryMinutes * Minute + 1}

NextGuard ==
    \/ \E r \in Reqs, header \in GuardTokens, cookie \in GuardTokens :
            MeAuthenticate(r, header, cookie)
    \/ \E r \in Reqs : MeFind(r)
    \/ \E r \in Reqs, t \in handedAccess : DeleteUserAuthenticate(r, t, NumUsers)
    \/ \E r \in Reqs : DeleteUser(r)
    \/ \E d \in GuardTickSteps : Tick(d)

SpecGuard == InitGuard /\ [][NextGuard]_vars

\* Tokens presented where the other kind belongs, with the administrator and the
\* last seeded user logged in: every interleaving of the awaits of refresh, GET /me
\* and logout-all, each presented with any access or refresh token handed out.
KindTokens == handedAccess \cup handed \cup {NoToken}

NextKinds ==
    \/ \E r \in Reqs, t \in KindTokens : RefreshFind(r, t)
    \/ \E r \in Reqs : RefreshRevokeAll(r)
    \/ \E r \in Reqs : RefreshRotateDelete(r)
    \/ \E r \in Reqs : RefreshCreate(r)
    \/ \E r \in Reqs : RefreshFinalize(r)
    \/ \E r \in Reqs, t \in KindTokens : MeAuthenticate(r, t, NoToken)
    \/ \E r \in Reqs : MeFind(r)
    \/ \E r \in Reqs, t \in KindTokens : LogoutAllAuthenticate(r, t)
    \/ \E r \in Reqs : LogoutAllRevoke(r)

SpecKinds == InitGuard /\ [][NextKinds]_vars

\* The login limiter and one account: logins of the administrator with a wrong
\* password, the address submitted as it is stored or in its other spelling, within
\* one window (time passes by half a second).
LoginSpellings == {1, Shouted(1)}
LoginLimitSteps == {MsPerSecond \div (2 * MsPerUnit)}

NextLoginLimit ==
    \/ \E r \in Reqs, e \in LoginSpellings : LoginFindUser(r, e, "Passw0rd")
    \/ \E r \in Reqs : LoginCompare(r)
    \/ \E d \in LoginLimitSteps : Tick(d)

SpecLoginLimit == InitLimiter /\ [][NextLoginLimit]_vars

\* ================================================================= properties
\* the number of requests answered so far; a step that answers one is a Completion
Responded == started - Cardinality({q \in Reqs : InFlight(q)})
Completion == Responded' = Responded + 1

\* a step that answers a refresh call
RefreshCompletion == Completion /\ resp'.kind = "refresh"

\* the rows of the session chain that record id belongs to
Chain(id) == {t \in ledger : lineage[t.id] = lineage[id]}
Successes(token) == {p \in succ : p[1] = token}
Presenting(token) ==
    {q \in Reqs : InFlight(q) /\ req[q].kind = "refresh" /\ req[q].tok = token}
\* a refresh presenting a token of record id's chain is under way
ChainBusy(id) ==
    \E q \in Reqs : /\ InFlight(q) /\ req[q].kind = "refresh"
                    /\ req[q].tok.tokenId \in DOMAIN lineage
                    /\ lineage[req[q].tok.tokenId] = lineage[id]

\* C1: once two overlapping refreshes that both found the same token live have
\* been answered, exactly one of them has succeeded, the token's record is gone
\* and (no later refresh of the chain being under way) its session chain holds
\* exactly one record.
C1_ExactlyOneSucceeds ==
    \A t \in raced :
        ~ChainBusy(t.tokenId) =>
            /\ Cardinality(Successes(t)) = 1
            /\ ~HasRow(t.tokenId)
            /\ Cardinality(Chain(t.tokenId)) = 1

\* C2: a refresh that found its token live and is answered with a failure when
\* its delete runs (the loser of a race for the token) is answered 401 with
\* TOKEN_NOT_FOUND or TOKEN_REVOKED.
C2_LoserGets401 ==
    (resp.kind = "refresh" /\ resp.at = "rotateDelete" /\ resp.status # 200)
        => (resp.status = 401 /\ resp.code \in {"TOKEN_NOT_FOUND", "TOKEN_REVOKED"})

\* C3: the answer to a refresh that found its record revoked is 401
\* TOKEN_REVOKED; after it every record of the token's user is revoked and the
\* records of the other users are as they were.
C3_ReplayRevokesUser ==
    [][(RefreshCompletion /\ resp'.at = "revokeAll") =>
            /\ resp'.status = 401 /\ resp'.code = "TOKEN_REVOKED"
            /\ \A t \in ledger' : t.userId = resp'.tok.userId => t.revoked
            /\ {t \in ledger' : t.userId # resp'.tok.userId}
                    = {t \in ledger : t.userId # resp'.tok.userId}
            /\ {t.id : t \in ledger'} = {t.id : t \in ledger}]_vars

\* C3 witness: a replay was answered while its user had a record made after the
\* replayed one was revoked.
C3_Witness ==
    /\ resp.kind = "refresh" /\ resp.at = "revokeAll"
    /\ \E t \in ledger : t.userId = resp.tok.userId /\ t.revoked
                            /\ t.id > resp.tok.tokenId

\* C5: when a refresh succeeds, the session chain holds exactly one record, the
\* new one; its id is larger than every id issued before, and the id of the
\* login record the chain started from is no longer in the ledger.
C5_ChainHasOneRecord ==
    [][(RefreshCompletion /\ resp'.status = 200) =>
            /\ {t.id : t \in {u \in ledger' : lineage'[u.id] = lineage'[resp'.out.tokenId]}}
                    = {resp'.out.tokenId}
            /\ \A id \in DOMAIN lineage' :
                    (lineage'[id] = lineage'[resp'.out.tokenId] /\ id # resp'.out.tokenId)
                        => id < resp'.out.tokenId
            /\ resp'.out.tokenId # resp'.tok.tokenId
            /\ lineage'[resp'.out.tokenId] # resp'.out.tokenId
            /\ ~\E t \in ledger' : t.id = lineage'[resp'.out.tokenId]]_vars

\* C5 witness: the second successful refresh of one chain has been answered.
C5_Witness ==
    /\ resp.kind = "refresh" /\ resp.status = 200
    /\ \E p \in succ : p[2] = resp.tok /\ lineage[p[1].tokenId] = p[1].tokenId

\* C8: whenever no refresh presenting a token is under way, either the token's
\* record is still in place or the chain holds the record that replaced it:
\* a chain that had a record never ends up with none because a rotation failed.
C8_NoPartialRotation ==
    ~(resp.kind = "refresh" /\ resp.at \in {"create", "finalize"}
        /\ resp.status # 200 /\ Presenting(resp.tok) = {}
        /\ ~HasRow(resp.tok.tokenId) /\ Chain(resp.tok.tokenId) = {})

\* C9: the answer to a refresh presenting a token that an earlier rotation
\* consumed leaves no record of the token's user that is not revoked.
C9_ReuseRevokesAll ==
    [][(RefreshCompletion /\ Successes(resp'.tok) # {} /\ resp'.status # 200
            /\ resp'.status # 429 /\ resp'.code # "INVALID_REFRESH_TOKEN") =>
            \A t \in ledger' : t.userId = resp'.tok.userId => t.revoked]_vars

\* a refresh call arrives in slot r and goes on to its first database write
RefreshArrival(r) == ~InFlight(r) /\ req'[r].pc # "idle" /\ req'[r].kind = "refresh"
\* a refresh call is answered on arrival by the handler
RefreshRefusal == RefreshCompletion /\ resp'.at = "arrive" /\ resp'.status # 429

\* the token verifies and its record is there, not revoked, and past its expiresAt
ExpiredLive(token) ==
    /\ verifyRefreshToken(token)
    /\ HasRow(token.tokenId)
    /\ ~Row(token.tokenId).revoked
    /\ Row(token.tokenId).expiresAt < now

\* the token verifies and its record is there, not revoked and not expired
Live(token) ==
    /\ verifyRefreshToken(token)
    /\ HasRow(token.tokenId)
    /\ ~Row(token.tokenId).revoked
    /\ ~(Row(token.tokenId).expiresAt < now)

\* C4: a refresh presenting a token that verifies and whose record is not revoked
\* but past its expiresAt takes the expiry path and no other call does; its answer
\* is 401 TOKEN_EXPIRED, it removes that record and nothing else, and it creates
\* no record.
C4_ExpiredRecordRemoved ==
    [][/\ \A r \in Reqs : RefreshArrival(r) =>
                (ExpiredLive(req'[r].tok) <=> req'[r].pc = "deleteExpired")
       /\ RefreshRefusal => ~ExpiredLive(resp'.tok)
       /\ (RefreshCompletion /\ resp'.at = "deleteExpired") =>
            /\ resp'.status = 401 /\ resp'.code = "TOKEN_EXPIRED"
            /\ HasRow(resp'.tok.tokenId)
            /\ ledger' = ledger \ {Row(resp'.tok.tokenId)}
            /\ nextId' = nextId]_vars

\* C4 witness: a token that still verifies was answered TOKEN_EXPIRED.
C4_Witness ==
    /\ resp.kind = "refresh" /\ resp.at = "deleteExpired"
    /\ resp.code = "TOKEN_EXPIRED"
    /\ verifyRefreshToken(resp.tok)
    /\ ~HasRow(resp.tok.tokenId)

\* C6: a refresh presenting a token that still verifies and that an earlier
\* rotation consumed is answered 401 TOKEN_REVOKED or TOKEN_NOT_FOUND and leaves
\* the ledger as it was; and a refresh presenting a token whose record is live
\* (as the rotated token's is after that) takes the rotation path and succeeds.
C6_ReuseFailsSuccessorWorks ==
    [][/\ (RefreshCompletion /\ Successes(resp'.tok) # {} /\ resp'.status # 429
                /\ verifyRefreshToken(resp'.tok)) =>
            /\ resp'.status = 401
            /\ resp'.code \in {"TOKEN_REVOKED", "TOKEN_NOT_FOUND"}
            /\ ledger' = ledger
       /\ \A r \in Reqs : RefreshArrival(r) =>
                (Live(req'[r].tok) <=> req'[r].pc = "rotateDelete")
       /\ RefreshRefusal => ~Live(resp'.tok)
       /\ (RefreshCompletion /\ resp'.at \in {"rotateDelete", "create", "finalize"}) =>
            /\ resp'.status = 200
            /\ <<resp'.tok, resp'.out>> \in succ'
            /\ \E t \in ledger' : t.id = resp'.out.tokenId /\ t.token = resp'.out]_vars

\* C6 witness: T was rotated to T', T was presented again and answered
\* TOKEN_NOT_FOUND, and then T' was presented and the refresh succeeded.
C6_Witness ==
    /\ resp.kind = "refresh" /\ resp.status = 200
    /\ \E p \in succ :
        /\ p[2] = resp.tok
        /\ [tok |-> p[1], status |-> 401, code |-> "TOKEN_NOT_FOUND"] \in answered

\* C7 as written: a refresh succeeds only for a token that no refresh call had
\* been answered for when it arrived, whatever that answer was.
C7_NoSuccessAfterAnyAnswer ==
    [][(RefreshCompletion /\ resp'.status = 200) => resp'.prior = {}]_vars

\* C7 amended: a refresh succeeds only for a token that, when it arrived, no
\* refresh call had been answered for by the handler (200, 401 or 500); answers
\* of the rate limiter (429) do not count.
C7_NoSuccessAfterHandledAnswer ==
    [][(RefreshCompletion /\ resp'.status = 200) => resp'.prior \subseteq {429}]_vars

\* C7 witness: a token whose refresh had succeeded was presented again and refused.
C7_Witness ==
    /\ resp.kind = "refresh" /\ resp.status = 401
    /\ 200 \in resp.prior

\* a setup-password (reset-password) call arrives in slot r and goes on
PasswordArrival(r, kind) == ~InFlight(r) /\ req'[r].pc # "idle" /\ req'[r].kind = kind
\* a setup-password (reset-password) call is answered
PasswordCompletion(kind) == Completion /\ resp'.kind = kind

\* the string is the stored, unexpired setup (reset) token of a verified user
SetupLive(secret) ==
    /\ secret # NoSecret
    /\ \E u \in DOMAIN users :
        /\ users[u].passwordSetupToken = secret
        /\ users[u].passwordSetupTokenExpiresAt # NoTime
        /\ ~(users[u].passwordSetupTokenExpiresAt < now)
        /\ users[u].isVerified
ResetLive(secret) ==
    /\ secret # NoSecret
    /\ \E u \in DOMAIN users :
        /\ users[u].passwordResetToken = secret
        /\ users[u].passwordResetTokenExpiresAt # NoTime
        /\ ~(users[u].passwordResetTokenExpiresAt < now)
        /\ users[u].isVerified

\* C10: with one request at a time, a setup-password call presenting a live setup
\* token and a valid password, and no other call, goes on to store the password:
\* it is answered 200, the stored hash is a new one that verifies the password, and
\* the token is cleared; every setup-password call presenting a token string that a
\* password update has consumed fails and leaves every user as it was, with
\* INVALID_TOKEN when its password is valid.  The same for reset-password.
C10_OneTimeTokenSequential ==
    [][/\ \A r \in Reqs : PasswordArrival(r, "setup") =>
            ((SetupLive(req'[r].secret) /\ validatePassword(req'[r].password))
                <=> req'[r].pc = "store")
       /\ (PasswordCompletion("setup") /\ resp'.at = "arrive") =>
            ~(SetupLive(resp'.secret) /\ validatePassword(resp'.password))
       /\ (PasswordCompletion("setup") /\ resp'.at = "store") =>
            /\ resp'.status = 200
            /\ users'[resp'.user].password = hashPassword(resp'.password, nextSalt)
            /\ users'[resp'.user].password # users[resp'.user].password
            /\ users'[resp'.user].passwordSetupToken = NoSecret
       /\ (PasswordCompletion("setup") /\ resp'.secret \in consumed) =>
            /\ resp'.status = 400
            /\ validatePassword(resp'.password) => resp'.code = "INVALID_TOKEN"
            /\ users' = users
       /\ \A r \in Reqs : PasswordArrival(r, "reset") =>
            ((ResetLive(req'[r].secret) /\ validatePassword(req'[r].password))
                <=> req'[r].pc = "store")
       /\ (PasswordCompletion("reset") /\ resp'.at = "arrive" /\ resp'.status # 429) =>
            ~(ResetLive(resp'.secret) /\ validatePassword(resp'.password))
       /\ \A r \in Reqs : (req[r].kind = "reset" /\ req[r].pc = "store"
                            /\ req'[r].pc # "store") =>
            /\ req'[r].pc = "revoke"
            /\ users'[req[r].user].password = hashPassword(req[r].password, nextSalt)
            /\ users'[req[r].user].password # users[req[r].user].password
            /\ users'[req[r].user].passwordResetToken = NoSecret
       /\ (PasswordCompletion("reset") /\ resp'.at = "revoke") =>
            /\ resp'.status = 200
            /\ users'[resp'.user].password.plain = resp'.password
            /\ users' = users
       /\ (PasswordCompletion("reset") /\ resp'.secret \in consumed
                /\ resp'.at = "arrive" /\ resp'.status # 429) =>
            /\ resp'.status = 400
            /\ validatePassword(resp'.password) => resp'.code = "INVALID_TOKEN"
            /\ users' = users]_vars

\* C10 witness: a setup token was consumed by a successful call, and a later call
\* presenting it with a valid password was answered INVALID_TOKEN.
C10_Witness ==
    /\ resp.kind = "setup" /\ resp.code = "INVALID_TOKEN"
    /\ resp.secret \in consumed
    /\ validatePassword(resp.password)

\* the same case for a reset token
C10_ResetReached ==
    /\ resp.kind = "reset" /\ resp.code = "INVALID_TOKEN"
    /\ resp.secret \in consumed
    /\ validatePassword(resp.password)

\* a step in which call r's password update takes effect
PasswordStored(r, kind) ==
    req[r].kind = kind /\ req[r].pc = "store" /\ req'[r].pc # "store"

\* C11: in every interleaving of concurrent setup-password calls (and of concurrent
\* reset-password calls) presenting one token string, at most one call sets the
\* password: no password update takes effect for a token string that an earlier
\* password update has consumed.
C11_OneTimeTokenConcurrent ==
    [][\A r \in Reqs :
        (PasswordStored(r, "setup") \/ PasswordStored(r, "reset")) =>
            req[r].secret \notin consumed]_vars

\* C12: with one request at a time, when a reset-password call succeeds every
\* ledger record of its user is revoked as it returns; a revoked record stays in the
\* ledger, revoked; and a refresh presenting the token of a revoked record is
\* answered 401 TOKEN_REVOKED and hands out nothing.
C12_ResetRevokesSessions ==
    [][/\ (PasswordCompletion("reset") /\ resp'.status = 200) =>
            /\ \A t \in ledger : t.userId = resp'.user =>
                    \E t2 \in ledger' : t2.id = t.id /\ t2.token = t.token /\ t2.revoked
            /\ \A t2 \in ledger' : t2.userId = resp'.user => t2.revoked
       /\ \A t \in ledger : t.revoked =>
            \E t2 \in ledger' : t2.id = t.id /\ t2.token = t.token /\ t2.revoked
       /\ (RefreshCompletion /\ \E t \in ledger : t.token = resp'.tok /\ t.revoked) =>
            /\ resp'.status = 401 /\ resp'.code = "TOKEN_REVOKED"
            /\ handed' = handed]_vars

\* C12 witness: a user with a session reset the password, and the refresh that then
\* presented the session's token, for the first time, was answered TOKEN_REVOKED.
C12_Witness ==
    /\ resp.kind = "refresh" /\ resp.code = "TOKEN_REVOKED"
    /\ resp.prior = {} /\ succ = {}
    /\ resp.tok \in handed
    /\ users[resp.tok.userId].password # SeedUser(resp.tok.userId).password
    /\ \E t \in ledger : t.token = resp.tok /\ t.revoked

\* C13: the only way the password changes here is a reset-password call, so once
\* every request has completed, each non-revoked ledger record belongs to a session
\* whose login verified the password its user has now: no record survives from a
\* login that verified a password since reset, nor from a refresh of such a session.
C13_NoSessionSurvivesReset ==
    NoneInFlight =>
        \A t \in ledger : ~t.revoked => credential[t.id] = users[t.userId].password

\* a step that answers a login call
LoginCompletion == Completion /\ resp'.kind = "login"
\* what a caller can tell one credential failure from another by
InvalidCredentialsAnswer ==
    [status |-> 401, code |-> "INVALID_CREDENTIALS",
     error |-> "Invalid email or password", out |-> NoToken]
Answer(rsp) ==
    [status |-> rsp.status, code |-> rsp.code, error |-> rsp.error, out |-> rsp.out]

\* C14: a login the limiter admits is answered with one and the same status (401),
\* code (INVALID_CREDENTIALS), body and no cookie both when no user has its e-mail
\* and when the e-mail belongs to a verified user whose password hash does not verify
\* the password presented.
C14_UniformCredentialFailure ==
    [][/\ (LoginCompletion /\ resp'.status # 429
            /\ resp'.email \notin DOMAIN users) =>
                Answer(resp') = InvalidCredentialsAnswer
       /\ (LoginCompletion /\ resp'.at = "compare"
            /\ users[resp'.email].isVerified
            /\ ~comparePassword(resp'.password, users[resp'.email].password)) =>
                Answer(resp') = InvalidCredentialsAnswer]_vars

\* C14 witness: a wrong password for a verified user was answered
C14_Witness ==
    /\ resp.kind = "login" /\ resp.at = "compare" /\ resp.status = 401
    /\ resp.email \in DOMAIN users /\ users[resp.email].isVerified
    /\ ~comparePassword(resp.password, users[resp.email].password)

\* the other case of C14: a login for an e-mail without a user was answered
C14_NoUserReached ==
    /\ resp.kind = "login" /\ resp.status = 401 /\ resp.email \notin DOMAIN users

\* C15: the two credential failures of login take the same time-consuming steps
\* before they answer: every INVALID_CREDENTIALS response comes after both the
\* password-hash comparison and the fixed delay.
C15_UniformFailureWork ==
    (resp.kind = "login" /\ resp.code = "INVALID_CREDENTIALS") =>
        resp.work = {"comparePassword", "delay"}

\* a step in which a login call arrives in slot r and goes on to its first await
LoginArrival(r) == ~InFlight(r) /\ req'[r].kind = "login"
\* the user row login's findUnique returns for the address submitted
Account(email) == users[sanitizeEmail(email)]
HasAccount(email) == sanitizeEmail(email) \in DOMAIN users

\* C16: a login the limiter admits, with both fields present, is answered 401
\* INVALID_CREDENTIALS if no user has the sanitized e-mail; otherwise 403
\* ACCOUNT_NOT_VERIFIED if the user is unverified (with or without a password
\* hash); otherwise 403 PASSWORD_NOT_SET if the user has no password hash;
\* otherwise it goes on to compare the password and is answered 401
\* INVALID_CREDENTIALS if the password does not verify; and a 200 with tokens is
\* given only to a login whose user exists, is verified, has a password hash and
\* whose password verifies.
C16_LoginDecisionOrder ==
    [][/\ (LoginCompletion /\ resp'.at = "arrive" /\ resp'.status # 429) =>
            /\ ~HasAccount(resp'.email) =>
                    resp'.status = 401 /\ resp'.code = "INVALID_CREDENTIALS"
            /\ (HasAccount(resp'.email) /\ ~Account(resp'.email).isVerified) =>
                    resp'.status = 403 /\ resp'.code = "ACCOUNT_NOT_VERIFIED"
            /\ (HasAccount(resp'.email) /\ Account(resp'.email).isVerified) =>
                    /\ resp'.status = 403 /\ resp'.code = "PASSWORD_NOT_SET"
                    /\ Account(resp'.email).password = NoHash
       /\ \A r \in Reqs : LoginArrival(r) =>
            /\ HasAccount(req'[r].email)
            /\ Account(req'[r].email).isVerified
            /\ Account(req'[r].email).password # NoHash
            /\ req'[r].pc = "compare"
       /\ (LoginCompletion /\ resp'.at = "compare") =>
            /\ ~comparePassword(resp'.password, Account(resp'.email).password)
            /\ resp'.status = 401 /\ resp'.code = "INVALID_CREDENTIALS"
       /\ \A r \in Reqs : (req[r].kind = "login" /\ req[r].pc = "compare"
                            /\ ~comparePassword(req[r].password,
                                                Account(req[r].email).password)) =>
            (LoginCompletion /\ resp'.at = "compare") \/ req'[r] = req[r]
       /\ (LoginCompletion /\ resp'.status = 200) =>
            /\ HasAccount(resp'.email)
            /\ Account(resp'.email).isVerified
            /\ Account(resp'.email).password # NoHash
            /\ comparePassword(resp'.password, Account(resp'.email).password)
            /\ resp'.out # NoToken /\ resp'.out \in handed'
            /\ generateAccessToken(sanitizeEmail(resp'.email)) \in handedAccess']_vars

\* C16 witness: a login for an account that was neither verified nor had a password
\* hash, submitted in another spelling of its address, was answered
\* ACCOUNT_NOT_VERIFIED.
C16_Witness ==
    /\ resp.kind = "login" /\ resp.code = "ACCOUNT_NOT_VERIFIED"
    /\ resp.email = Shouted(NewEmail)
    /\ HasAccount(resp.email)
    /\ ~Account(resp.email).isVerified /\ Account(resp.email).password = NoHash

\* the other answers of C16 are given as well
C16_PasswordNotSetReached == resp.kind = "login" /\ resp.code = "PASSWORD_NOT_SET"
C16_WrongPasswordReached ==
    resp.kind = "login" /\ resp.at = "compare" /\ resp.status = 401
C16_SuccessReached == resp.kind = "login" /\ resp.status = 200

\* an account made by register (the seeded users were not)
Registered(email) == HasAccount(email) /\ sanitizeEmail(email) \notin Users

\* C17: one request at a time, for an address no user has: register, when its
\* limiter admits it, is answered
\* 201 and stores an unverified user without a password hash; the
\* administrator's verification marks that user verified and issues a setup
\* token, leaving the password hash as it was (none); setup-password presenting the issued
\* token and a valid password is answered 200 and stores a hash of it; and login
\* for that account is answered ACCOUNT_NOT_VERIFIED until the verification,
\* PASSWORD_NOT_SET from the verification until the setup, and 200 with an access
\* token and a refresh-token cookie when it then presents the password set up.
C17_AccountLifecycle ==
    [][/\ \A r \in Reqs : (~InFlight(r) /\ req'[r].kind = "register") =>
            ~HasAccount(req'[r].email)
       /\ (Completion /\ resp'.kind = "register" /\ resp'.status # 429
                /\ ~HasAccount(resp'.email)) =>
            /\ resp'.at = "create" /\ resp'.status = 201
            /\ sanitizeEmail(resp'.email) \in DOMAIN users'
            /\ ~users'[sanitizeEmail(resp'.email)].isVerified
            /\ users'[sanitizeEmail(resp'.email)].password = NoHash
       /\ \A r \in Reqs : (req[r].kind = "verify" /\ req[r].pc = "update"
                            /\ req'[r].pc = "send" /\ req[r].user \notin Users) =>
            /\ users'[req[r].user].isVerified
            /\ users'[req[r].user].passwordSetupToken = req[r].newSecret
            /\ users'[req[r].user].password = users[req[r].user].password
       /\ \A r \in Reqs : (req[r].kind = "verify" /\ req[r].pc = "send"
                            /\ Completion /\ resp'.status = 200) =>
            /\ req[r].newSecret \in mailed'
            /\ users[req[r].user].passwordSetupToken = req[r].newSecret
       /\ (PasswordCompletion("setup") /\ SetupLive(resp'.secret)
                /\ validatePassword(resp'.password)) =>
            /\ resp'.status = 200
            /\ users'[resp'.user].password.plain = resp'.password
       /\ (LoginCompletion /\ Registered(resp'.email)) =>
            /\ ~Account(resp'.email).isVerified =>
                    resp'.status = 403 /\ resp'.code = "ACCOUNT_NOT_VERIFIED"
            /\ (Account(resp'.email).isVerified
                    /\ Account(resp'.email).password = NoHash) =>
                    resp'.status = 403 /\ resp'.code = "PASSWORD_NOT_SET"
            /\ (Account(resp'.email).isVerified
                    /\ Account(resp'.email).password # NoHash
                    /\ Account(resp'.email).password.plain = resp'.password) =>
                    /\ resp'.status = 200
                    /\ resp'.out # NoToken /\ resp'.out \in handed'
                    /\ \E t \in ledger' : t.token = resp'.out /\ ~t.revoked
                    /\ generateAccessToken(sanitizeEmail(resp'.email)) \in handedAccess'
       ]_vars

\* C17 witness: a registered address was verified, its setup token consumed, and
\* the login with the password set up was answered 200 with a refresh token.
C17_Witness ==
    /\ resp.kind = "login" /\ resp.status = 200 /\ resp.out # NoToken
    /\ Registered(resp.email)
    /\ consumed # {}
    /\ Account(resp.email).password.plain = resp.password

\* the limiter a request passes, and the key it is counted under
LimiterOf(kind) ==
    CASE kind = "login" -> "login"
      [] kind = "refresh" -> "refresh"
      [] kind = "register" -> "register"
      [] kind = "forgot" -> "forgot-password"
      [] kind = "reset" -> "reset-password"
KeyOf(rsp) ==
    CASE rsp.kind = "login" -> LoginKey(rsp.email)
      [] rsp.kind = "forgot" -> ForgotKey(rsp.email)
      [] OTHER -> IpKey
\* a step in which a request arrives and is answered at once
Hit == started' = started + 1 /\ Completion
\* the key has a record whose reset time has not passed
WindowOpen(key) ==
    rateLimitStore[key] # NoRecord /\ ~(rateLimitStore[key].resetTime < now)
\* milliseconds left until the key's reset time
Remaining(key) == (rateLimitStore[key].resetTime - now) * MsPerUnit

\* C18: for every limiter and key, no more than max requests are admitted by the
\* limiter between the opening of the key's window and its reset time, the counter
\* being the number admitted under the key; once max were admitted, every further
\* request of the limiter for the key up to the reset time is answered 429; a 429
\* carries the remaining time rounded up to whole seconds as retryAfter and leaves
\* the counter and the reset time as they were.  The sixth login attempt for one
\* address within 15 minutes of the first is answered 429.
C18_FixedWindowLimit ==
    [][Hit =>
            LET l == LimiterOf(resp'.kind)
                k == KeyOf(resp')
            IN /\ \A m \in Limiters : admitted'[k].by[m] <= LimiterMax(m)
               /\ (WindowOpen(k) /\ admitted[k].by[l] >= LimiterMax(l)) =>
                        resp'.status = 429
               /\ resp'.status = 429 =>
                    /\ WindowOpen(k)
                    /\ resp'.retryAfter * MsPerSecond >= Remaining(k)
                    /\ (resp'.retryAfter - 1) * MsPerSecond < Remaining(k)
                    /\ rateLimitStore' = rateLimitStore
               /\ resp'.status # 429 =>
                    /\ admitted'[k].by[l] =
                            IF WindowOpen(k) THEN admitted[k].by[l] + 1 ELSE 1
                    /\ rateLimitStore'[k].count =
                            IF WindowOpen(k) THEN rateLimitStore[k].count + 1 ELSE 1
                    /\ \A j \in LimiterKeys \ {k} :
                            /\ rateLimitStore'[j] = rateLimitStore[j]
                            /\ admitted'[j] = admitted[j]
               /\ (resp'.kind = "login" /\ admitted[k].by["login"] = LoginMax
                        /\ now - admitted[k].since <= LoginWindowMinutes * Minute) =>
                        resp'.status = 429]_vars

\* C18 witness: a sixth login attempt for one address was answered 429 half a
\* second into the window, with a remaining time that is no whole number of seconds.
C18_Witness ==
    /\ resp.kind = "login" /\ resp.status = 429
    /\ admitted[KeyOf(resp)].by["login"] = LoginMax
    /\ WindowOpen(KeyOf(resp))
    /\ Remaining(KeyOf(resp)) % MsPerSecond # 0
    /\ resp.retryAfter * MsPerSecond > Remaining(KeyOf(resp))

\* C19: the allowance of one limited action is used up by requests to that action
\* only: a request is answered 429 only if its own limiter has admitted max
\* requests of its action under the key since the key's window opened.
C19_CountersPerAction ==
    [][(Hit /\ resp'.status = 429) =>
            admitted[KeyOf(resp')].by[LimiterOf(resp'.kind)]
                >= LimiterMax(LimiterOf(resp'.kind))]_vars

\* C20: the first request to arrive after a key's reset time has passed is
\* admitted and opens a new window with count 1 and reset time now + windowMs;
\* and a request that arrives windowMs or more after the key's window opened is
\* admitted, whatever was counted in that window.
C20_LazyWindowReset ==
    [][Hit =>
            LET l == LimiterOf(resp'.kind)
                k == KeyOf(resp')
            IN /\ (rateLimitStore[k] # NoRecord /\ rateLimitStore[k].resetTime < now) =>
                    /\ resp'.status # 429
                    /\ rateLimitStore'[k] =
                            [count |-> 1, resetTime |-> now + LimiterWindow(l)]
               /\ (rateLimitStore[k] # NoRecord
                        /\ now >= admitted[k].since + LimiterWindow(l)) =>
                    resp'.status # 429]_vars

\* C21: for every limiter and key, no interval of the limiter's windowMs holds more
\* than twice its max admissions of the limiter under the key: the admissions within
\* windowMs up to the latest one number at most 2 * max.
C21_BoundaryBurstBound ==
    \A k \in LimiterKeys : \A l \in Limiters :
        Len(admitted[k].log[l]) <= 2 * LimiterMax(l)

\* C22: every logout request is answered 200 with the cookies cleared, whatever it
\* presents.
C22_LogoutNeverFails ==
    [][(Completion /\ resp'.kind = "logout") =>
            (resp'.status = 200 /\ resp'.cleared)]_vars

\* C23: when a logout-all of user u is answered, every record of u that was not
\* revoked is revoked with revokedAt set to the time of it, no record of u is left
\* unrevoked, the records of other users are as they were and no record is added or
\* removed; and a refresh that arrives presenting a token handed out before a
\* logout-all of its user was answered takes no path but the refusals: it is
\* answered 401 and hands out nothing.
C23_LogoutAllRevokesCaller ==
    [][/\ (Completion /\ resp'.kind = "logoutAll" /\ resp'.status = 200) =>
            /\ now # NoTime
            /\ \A t \in ledger : (t.userId = resp'.user /\ ~t.revoked) =>
                    [t EXCEPT !.revoked = TRUE, !.revokedAt = now] \in ledger'
            /\ \A t \in ledger' : t.userId = resp'.user => t.revoked
            /\ {t \in ledger' : t.userId # resp'.user}
                    = {t \in ledger : t.userId # resp'.user}
            /\ {t.id : t \in ledger'} = {t.id : t \in ledger}
       /\ \A r \in Reqs : (RefreshArrival(r) /\ req'[r].tok \in closed) =>
            req'[r].pc = "revokeAll"
       /\ (Hit /\ resp'.kind = "refresh" /\ resp'.tok \in closed) =>
            resp'.status = 401
       /\ (RefreshCompletion /\ resp'.at = "revokeAll") =>
            /\ resp'.status = 401
            /\ handed' = handed]_vars

\* C23 witness: two users were logged in, one of them logged out everywhere, and
\* the refresh that then presented that user's token was answered TOKEN_REVOKED
\* while the other user's record was left live.
C23_Witness ==
    /\ resp.kind = "refresh" /\ resp.code = "TOKEN_REVOKED"
    /\ resp.tok \in closed
    /\ \E t \in ledger : t.token = resp.tok /\ t.revoked /\ t.revokedAt # NoTime
    /\ \E t \in ledger : t.userId # resp.tok.userId /\ ~t.revoked

\* C24: a logout presenting the token of a record that is already revoked, and a
\* logout-all of a user whose records are all revoked, leave the ledger as it was:
\* revoked stays true and revokedAt keeps the time of the first revocation.
C24_RevocationIdempotent ==
    [][/\ (Completion /\ resp'.kind = "logout" /\ resp'.at = "revoke"
                /\ \E t \in ledger : t.id = resp'.tok.tokenId /\ t.revoked) =>
            ledger' = ledger
       /\ (Completion /\ resp'.kind = "logoutAll" /\ resp'.status = 200
                /\ \A t \in ledger : t.userId = resp'.user => t.revoked) =>
            ledger' = ledger]_vars

\* the one answer of forgot-password
ForgotAnswer ==
    [status |-> 200, code |-> "OK", error |-> "", out |-> NoToken, cleared |-> FALSE,
     message |-> "If an account exists with this email, a password reset link has been sent."]
Body(rsp) ==
    [status |-> rsp.status, code |-> rsp.code, error |-> rsp.error, out |-> rsp.out,
     cleared |-> rsp.cleared, message |-> rsp.message]

\* C25: a forgot-password request its limiter admits is answered with one and the
\* same status and body whether or not a user has the address, whether that user is
\* verified or not, has a password or not, and whether the mail was sent or failed;
\* and whether the limiter admits it does not depend on the users: it is refused
\* exactly when the record of its address and e-mail stands at the maximum.
C25_ForgotEnumerationSafe ==
    [][(Completion /\ resp'.kind = "forgot") =>
            /\ resp'.status # 429 => Body(resp') = ForgotAnswer
            /\ (Hit /\ WindowOpen(KeyOf(resp'))
                    /\ rateLimitStore[KeyOf(resp')].count >= ForgotMax)
                  <=> resp'.status = 429]_vars

\* C25 witness: forgot-password for an account that is verified and has no
\* password was answered
C25_Witness ==
    /\ resp.kind = "forgot" /\ resp.status = 200
    /\ Registered(resp.email)
    /\ Account(resp.email).isVerified /\ Account(resp.email).password = NoHash

\* the other cases of C25: nobody has the address; the account is not verified;
\* the mail was sent; the mail failed
C25_NoUserReached == resp.kind = "forgot" /\ resp.status = 200 /\ ~HasAccount(resp.email)
C25_UnverifiedReached ==
    resp.kind = "forgot" /\ resp.status = 200 /\ Registered(resp.email)
        /\ ~Account(resp.email).isVerified
C25_SentReached == resp.kind = "forgot" /\ resp.at = "send" /\ resp.status = 200
C25_MailFailedReached == resp.kind = "forgot" /\ resp.at = "clear" /\ resp.status = 200
C25_LimitedReached == resp.kind = "forgot" /\ resp.status = 429

\* C26: in every interleaving of register calls for one (sanitized) address, a call
\* answered 201 has created the user, nobody having had the address before, and
\* every other call its limiter admits is answered 400 EMAIL_EXISTS.
C26_DuplicateRegistrationConflict ==
    [][(Completion /\ resp'.kind = "register" /\ resp'.status # 429) =>
            IF resp'.status = 201
              THEN /\ ~HasAccount(resp'.email)
                   /\ sanitizeEmail(resp'.email) \in DOMAIN users'
              ELSE /\ resp'.status = 400 /\ resp'.code = "EMAIL_EXISTS"
                   /\ users' = users]_vars

\* C27: when the verification has updated the user and the mail then fails, the
\* answer is 500 EMAIL_SEND_FAILED and the update stays: the user is verified and
\* holds the token just issued with its expiry 24 hours on; and a setup-password
\* presenting a stored token that was never delivered, with a valid password, is
\* answered 200 and sets the password.
C27_VerifyNotRolledBack ==
    [][/\ \A r \in Reqs : (req[r].kind = "verify" /\ req[r].pc = "send" /\ Completion
                            /\ req[r].newSecret \notin mailed') =>
            /\ resp'.status = 500 /\ resp'.code = "EMAIL_SEND_FAILED"
            /\ users' = users
            /\ users'[req[r].user].isVerified
            /\ users'[req[r].user].passwordSetupToken = req[r].newSecret
            /\ users'[req[r].user].passwordSetupTokenExpiresAt
                    = now + SetupTokenHours * MinutesPerHour * Minute
       /\ \A r \in Reqs : (PasswordArrival(r, "setup") /\ req'[r].secret \notin mailed
                            /\ SetupLive(req'[r].secret)
                            /\ validatePassword(req'[r].password)) =>
            req'[r].pc = "store"
       /\ (PasswordCompletion("setup") /\ resp'.at = "store") =>
            /\ resp'.status = 200
            /\ users'[resp'.user].password = hashPassword(resp'.password, nextSalt)
            /\ resp'.secret \in consumed']_vars

\* C27 witness: the mail of a registered user's verification failed, and the
\* setup-password that presented the stored token set the password.
C27_Witness ==
    /\ resp.kind = "setup" /\ resp.status = 200
    /\ resp.secret \notin mailed /\ resp.secret \in consumed
    /\ resp.user \notin Users
    /\ users[resp.user].isVerified
    /\ users[resp.user].password.plain = resp.password

\* C28: when a setup-password call succeeds for a user, that user owns no record
\* that is not revoked.
C28_NoSessionPredatesSetup ==
    [][(PasswordCompletion("setup") /\ resp'.status = 200) =>
            \A t \in ledger' : t.userId = resp'.user => t.revoked]_vars

\* C29: every response that is no success carries a code.
C29_ErrorsCarryCode ==
    resp.status \notin {0, 200, 201} => resp.code # ""

\* a step in which the guard admits a GET /me request in slot r
MeArrival(r) == ~InFlight(r) /\ req'[r].kind = "me"

C30_UserGoneReached ==
    /\ resp.kind = "me" /\ resp.at = "arrive" /\ resp.code = "USER_NOT_FOUND"
    /\ verifyAccessToken(resp.tok)
C30_ForeignReached == resp.kind = "me" /\ resp.code = "INVALID_TOKEN" /\ resp.tok = Foreign
C30_ForgedReached ==
    resp.kind = "me" /\ resp.code = "INVALID_TOKEN" /\ resp.tok = ForgedAccess
C30_ExpiredReached ==
    resp.kind = "me" /\ resp.code = "TOKEN_EXPIRED" /\ resp.tok \in handedAccess

\* C31: a login with correct credentials, and a refresh of a session that no other
\* refresh is rotating, is not answered with a failure once it has gone on to create
\* its record: it succeeds whatever other requests run beside it.
C31_IndependentRequestsSucceed ==
    ~(/\ resp.kind \in {"login", "refresh"}
      /\ resp.at \in {"create", "finalize"}
      /\ resp.status # 200
      /\ resp.tok \notin raced)

\* a step in which the guard admits a request of kind `kind` in slot r
GuardArrival(r, kind) == ~InFlight(r) /\ req'[r].kind = kind

\* C32: a refresh presenting a token that was handed out as an access token goes no
\* further than its verification and is answered 401 INVALID_REFRESH_TOKEN (or 429
\* by the limiter); a request presenting to the authentication guard a token that
\* was handed out as a refresh token is not admitted and is answered 401.
C32_TokenKindsNotInterchangeable ==
    [][/\ \A r \in Reqs : RefreshArrival(r) => req'[r].tok \notin handedAccess
       /\ (Hit /\ resp'.kind = "refresh" /\ resp'.tok \in handedAccess) =>
            \/ resp'.status = 429
            \/ resp'.status = 401 /\ resp'.code = "INVALID_REFRESH_TOKEN"
       /\ \A r \in Reqs :
            (GuardArrival(r, "me") \/ GuardArrival(r, "logoutAll")) =>
                req'[r].tok \notin handed
       /\ (Hit /\ resp'.kind \in {"me", "logoutAll"} /\ resp'.tok \in handed) =>
            /\ resp'.status = 401
            /\ resp'.code \in {"INVALID_TOKEN", "TOKEN_EXPIRED"}]_vars

\* C32 witness: the guard has refused a refresh token that the refresh endpoint
\* would rotate.
C32_Witness ==
    /\ resp.kind = "me" /\ resp.status = 401 /\ resp.code = "INVALID_TOKEN"
    /\ resp.tok \in handed /\ Live(resp.tok)

\* the other half of C32: the refresh endpoint has refused an access token that the
\* guard would admit
C32_AccessRefusedReached ==
    /\ resp.kind = "refresh" /\ resp.code = "INVALID_REFRESH_TOKEN"
    /\ resp.tok \in handedAccess /\ authenticate(resp.tok) = ""

\* the string is a stored setup (reset) token whose expiry is missing or has passed
SetupExpired(secret) ==
    /\ secret # NoSecret
    /\ \E u \in DOMAIN users :
        /\ users[u].passwordSetupToken = secret
        /\ \/ users[u].passwordSetupTokenExpiresAt = NoTime
           \/ users[u].passwordSetupTokenExpiresAt < now
ResetExpired(secret) ==
    /\ secret # NoSecret
    /\ \E u \in DOMAIN users :
        /\ users[u].passwordResetToken = secret
        /\ \/ users[u].passwordResetTokenExpiresAt = NoTime
           \/ users[u].passwordResetTokenExpiresAt < now

\* C33: with one request at a time, a setup-password call presenting a stored setup
\* token whose expiry has passed (and a valid password), and no other call, takes
\* the expiry path; it is answered 400 TOKEN_EXPIRED, nulls that token and its expiry
\* and changes nothing else of any user (the password hash stays), after which no
\* user holds the string; the next setup-password call presenting the same string is
\* answered 400 INVALID_TOKEN and changes no user.  The same for reset-password.
C33_ExpiredTokenCleared ==
    [][/\ \A r \in Reqs : PasswordArrival(r, "setup") =>
            ((SetupExpired(req'[r].secret) /\ validatePassword(req'[r].password))
                <=> req'[r].pc = "clearExpired")
       /\ (PasswordCompletion("setup") /\ resp'.at = "clearExpired") =>
            /\ resp'.status = 400 /\ resp'.code = "TOKEN_EXPIRED"
            /\ users' = [users EXCEPT ![resp'.user] =
                    [@ EXCEPT !.passwordSetupToken = NoSecret,
                              !.passwordSetupTokenExpiresAt = NoTime]]
            /\ users'[resp'.user].password = users[resp'.user].password
            /\ \A u \in DOMAIN users' : users'[u].passwordSetupToken # resp'.secret
       /\ \A r \in Reqs :
            (PasswordArrival(r, "setup") /\ resp.kind = "setup"
                /\ resp.code = "TOKEN_EXPIRED") => req'[r].secret # resp.secret
       /\ (Hit /\ resp'.kind = "setup" /\ resp.kind = "setup"
                /\ resp.code = "TOKEN_EXPIRED" /\ resp'.secret = resp.secret
                /\ validatePassword(resp'.password)) =>
            /\ resp'.status = 400 /\ resp'.code = "INVALID_TOKEN"
            /\ users' = users
       /\ \A r \in Reqs : PasswordArrival(r, "reset") =>
            ((ResetExpired(req'[r].secret) /\ validatePassword(req'[r].password))
                <=> req'[r].pc = "clearExpired")
       /\ (PasswordCompletion("reset") /\ resp'.at = "clearExpired") =>
            /\ resp'.status = 400 /\ resp'.code = "TOKEN_EXPIRED"
            /\ users' = [users EXCEPT ![resp'.user] =
                    [@ EXCEPT !.passwordResetToken = NoSecret,
                              !.passwordResetTokenExpiresAt = NoTime]]
            /\ users'[resp'.user].password = users[resp'.user].password
            /\ \A u \in DOMAIN users' : users'[u].passwordResetToken # resp'.secret
       /\ \A r \in Reqs :
            (PasswordArrival(r, "reset") /\ resp.kind = "reset"
                /\ resp.code = "TOKEN_EXPIRED") => req'[r].secret # resp.secret
       /\ (Hit /\ resp'.kind = "reset" /\ resp.kind = "reset"
                /\ resp.code = "TOKEN_EXPIRED" /\ resp'.secret = resp.secret
                /\ validatePassword(resp'.password) /\ resp'.status # 429) =>
            /\ resp'.status = 400 /\ resp'.code = "INVALID_TOKEN"
            /\ users' = users]_vars

\* C33 witness: a mailed setup token was answered TOKEN_EXPIRED; its user holds no
\* setup token any more.
C33_Witness ==
    /\ resp.kind = "setup" /\ resp.code = "TOKEN_EXPIRED"
    /\ resp.secret \in mailed
    /\ users[resp.user].passwordSetupToken = NoSecret
    /\ users[resp.user].passwordSetupTokenExpiresAt = NoTime

\* the same case for a reset token, whose user keeps the password it had
C33_ResetReached ==
    /\ resp.kind = "reset" /\ resp.code = "TOKEN_EXPIRED"
    /\ resp.secret \in mailed
    /\ users[resp.user].passwordResetToken = NoSecret
    /\ users[resp.user].password = SeedUser(resp.user).password

\* the repeated call: a mailed token that no password update consumed and no user
\* holds was answered INVALID_TOKEN
C33_RepeatReached ==
    /\ resp.kind \in {"setup", "reset"} /\ resp.code = "INVALID_TOKEN"
    /\ resp.secret \in mailed /\ resp.secret \notin consumed
    /\ now > 0

\* a step of a request of one of the kinds
StepOf(kinds) == \E r \in Reqs : req[r].kind \in kinds /\ req'[r] # req[r]

\* the string is in the setup (reset) slot of some user
InSetupSlot(secret) ==
    secret # NoSecret /\ \E u \in DOMAIN users : users[u].passwordSetupToken = secret
InResetSlot(secret) ==
    secret # NoSecret /\ \E u \in DOMAIN users : users[u].passwordResetToken = secret

\* C34: no step of a verification or a setup-password call (issuing, expiring or
\* consuming a setup token) changes any user's reset token or its expiry, and no step
\* of a forgot-password or a reset-password call changes any user's setup token or
\* its expiry; a setup-password call goes on only with a string of the setup slot
\* and answers a string of the reset slot 400 INVALID_TOKEN, and the other way round.
C34_SlotsIndependent ==
    [][/\ StepOf({"verify", "setup"}) =>
            \A u \in DOMAIN users :
                /\ users'[u].passwordResetToken = users[u].passwordResetToken
                /\ users'[u].passwordResetTokenExpiresAt
                        = users[u].passwordResetTokenExpiresAt
       /\ StepOf({"forgot", "reset"}) =>
            \A u \in DOMAIN users :
                /\ users'[u].passwordSetupToken = users[u].passwordSetupToken
                /\ users'[u].passwordSetupTokenExpiresAt
                        = users[u].passwordSetupTokenExpiresAt
       /\ \A r \in Reqs : PasswordArrival(r, "setup") =>
            /\ users[req'[r].user].passwordSetupToken = req'[r].secret
            /\ ~InResetSlot(req'[r].secret)
       /\ (Hit /\ resp'.kind = "setup" /\ InResetSlot(resp'.secret)
                /\ validatePassword(resp'.password)) =>
            resp'.status = 400 /\ resp'.code = "INVALID_TOKEN"
       /\ \A r \in Reqs : PasswordArrival(r, "reset") =>
            /\ users[req'[r].user].passwordResetToken = req'[r].secret
            /\ ~InSetupSlot(req'[r].secret)
       /\ (Hit /\ resp'.kind = "reset" /\ InSetupSlot(resp'.secret)
                /\ validatePassword(resp'.password) /\ resp'.status # 429) =>
            resp'.status = 400 /\ resp'.code = "INVALID_TOKEN"]_vars

\* C34 witness: a reset-password call has consumed the reset token of a user who
\* holds a setup token, which is still in place.
C34_Witness ==
    /\ resp.kind = "reset" /\ resp.status = 200
    /\ users[resp.user].passwordResetToken = NoSecret
    /\ users[resp.user].passwordSetupToken # NoSecret
    /\ users[resp.user].passwordSetupTokenExpiresAt # NoTime

\* the crossed presentations of C34: a stored reset token refused by setup-password,
\* a stored setup token refused by reset-password
C34_ResetTokenRefusedReached ==
    /\ resp.kind = "setup" /\ resp.code = "INVALID_TOKEN" /\ ResetLive(resp.secret)
C34_SetupTokenRefusedReached ==
    /\ resp.kind = "reset" /\ resp.code = "INVALID_TOKEN" /\ SetupLive(resp.secret)

\* C35: no step of a login or of a refresh call changes a User record, whatever the
\* call is answered; a login that is answered with a failure is answered on arrival,
\* after the comparison or when its insert fails, and neither that step nor any
\* step of a login before its insert changes the ledger.
C35_FailuresDoNotMutate ==
    [][/\ (StepOf({"login", "refresh"}) \/ (Hit /\ resp'.kind \in {"login", "refresh"}))
            => users' = users
       /\ (LoginCompletion /\ resp'.status # 200) =>
            /\ resp'.at \in {"arrive", "compare", "create"}
            /\ ledger' = ledger
       /\ \A r \in Reqs :
            (\/ LoginArrival(r)
             \/ req[r].kind = "login" /\ req[r].pc = "compare" /\ req'[r] # req[r])
                => ledger' = ledger]_vars

\* C35 witness: a login with a wrong password was answered 401 while its account,
\* whose password a reset has changed, has a session that is not revoked.
C35_Witness ==
    /\ resp.kind = "login" /\ resp.at = "compare" /\ resp.status = 401
    /\ users[resp.user] # SeedUser(resp.user)
    /\ \E t \in ledger : t.userId = resp.user /\ ~t.revoked

\* the refresh half of C35: a refresh was answered with a failure after a User
\* record had been changed by another call
C35_RefreshReached ==
    /\ resp.kind = "refresh" /\ resp.status = 401 /\ resp.at # "arrive"
    /\ \E u \in DOMAIN users : users[u] # SeedUser(u)

\* the ledger records other than those with the ids, without their token strings
Others(rows, ids) ==
    {[id |-> t.id, userId |-> t.userId, expiresAt |-> t.expiresAt,
      revoked |-> t.revoked, revokedAt |-> t.revokedAt] : t \in {u \in rows : u.id \notin ids}}
Ids(rows) == {t.id : t \in rows}

\* C36: every step of a login leaves every ledger record but its own new one as it
\* was, and a login that succeeds has added exactly that one record; every step of a
\* refresh on its rotation path leaves every record but the presented one and its
\* own new one as it was, and a refresh that succeeds has removed the presented
\* record and added exactly one.
C36_OtherSessionsLeftAlone ==
    [][/\ \A r \in Reqs : (req[r].kind = "login" /\ req'[r] # req[r]) =>
            LET mine == IF req[r].pc = "create" THEN nextId ELSE req[r].newId
            IN /\ Others(ledger', {mine}) = Others(ledger, {mine})
               /\ {t \in ledger' : t.id # mine} = {t \in ledger : t.id # mine}
               /\ req'[r].pc = "finalize" =>
                    /\ mine \notin Ids(ledger)
                    /\ Ids(ledger') = Ids(ledger) \cup {mine}
               /\ (req[r].pc = "finalize" /\ resp'.status = 200) =>
                    /\ Ids(ledger') = Ids(ledger)
                    /\ mine \in Ids(ledger')
       /\ \A r \in Reqs :
            (/\ req[r].kind = "refresh" /\ req'[r] # req[r]
             /\ req[r].pc \in {"rotateDelete", "create", "finalize"}) =>
            LET mine == IF req[r].pc = "create" THEN nextId ELSE req[r].newId
                both == {req[r].tok.tokenId, mine}
            IN /\ {t \in ledger' : t.id \notin both} = {t \in ledger : t.id \notin both}
               /\ req'[r].pc = "create" =>
                    Ids(ledger') = Ids(ledger) \ {req[r].tok.tokenId}
               /\ req'[r].pc = "finalize" =>
                    /\ mine \notin Ids(ledger)
                    /\ Ids(ledger') = Ids(ledger) \cup {mine}
               /\ (req[r].pc = "finalize" /\ resp'.status = 200) =>
                    /\ Ids(ledger') = Ids(ledger)
                    /\ mine \in Ids(ledger')
                    /\ req[r].tok.tokenId \notin Ids(ledger')]_vars

\* C36 witness: a refresh has succeeded while its user has another session and
\* another user has one, neither revoked.
C36_Witness ==
    /\ resp.kind = "refresh" /\ resp.status = 200
    /\ \E t \in ledger : /\ t.userId = resp.tok.userId /\ t.id # resp.out.tokenId
                          /\ ~t.revoked /\ t.token # Temp
    /\ \E t \in ledger : t.userId # resp.tok.userId /\ ~t.revoked /\ t.token # Temp

\* the login half of C36: a login has succeeded while its user has another session
C36_LoginReached ==
    /\ resp.kind = "login" /\ resp.status = 200
    /\ \E t \in ledger : /\ t.userId = resp.user /\ t.id # resp.out.tokenId
                          /\ ~t.revoked /\ t.token # Temp

\* C37: when a forgot-password call whose mail failed clears the reset token, no
\* other forgot-password call being under way, a reset token that a different call
\* stored for the same user and that was mailed stays stored with its expiry.
C37_ClearsOnlyOwnToken ==
    [][\A r \in Reqs :
        (/\ req[r].kind = "forgot" /\ req[r].pc = "clear" /\ req'[r].pc = "idle"
         /\ \A q \in Reqs \ {r} : req[q].kind # "forgot"
         /\ users[req[r].user].passwordResetToken # req[r].newSecret
         /\ users[req[r].user].passwordResetToken \in mailed) =>
            /\ users'[req[r].user].passwordResetToken
                    = users[req[r].user].passwordResetToken
            /\ users'[req[r].user].passwordResetTokenExpiresAt
                    = users[req[r].user].passwordResetTokenExpiresAt]_vars

\* history: the logins admitted under the spelling `e` in the window open for it
LoginsAdmitted(e) ==
    IF WindowOpen(LoginKey(e)) THEN admitted[LoginKey(e)].by["login"] ELSE 0

\* C38: for every account, the logins admitted in the open windows of the two
\* spellings of its address, which the handler sanitizes to the same address, number
\* at most 5 together.
C38_LoginLimitPerAccount ==
    \A a \in Emails : LoginsAdmitted(a) + LoginsAdmitted(Shouted(a)) <= LoginMax

C40_LogoutRevokesOwnOnly ==
    [][\A r \in Reqs : (req[r].kind = "logout" /\ req'[r] # req[r]) =>
            {t \in ledger' : t.userId # req[r].user}
                = {t \in ledger : t.userId # req[r].user}]_vars
====
